---- MODULE Spec2Model ----
(***************************************************************************)
(* Model of the MAC scan engine of willyanxd/macscan:                      *)
(*   MacScanRunner (runJob, _processDevices, _applyRetentionPolicy),       *)
(*   the SQLite tables it reads and writes, and the SSH collaborator's     *)
(*   results.                                                              *)
(*                                                                         *)
(* Node.js runs one handler at a time.  better-sqlite3 statements are      *)
(* synchronous, so the only points where another handler can run while a   *)
(* runJob invocation is in flight are its awaits on the SSH query.  The    *)
(* variable "active" names the invocation that holds the event loop: its   *)
(* statements are separate steps, and nothing else moves until it reaches  *)
(* an SSH await or ends.                                                   *)
(***************************************************************************)
EXTENDS Integers, Sequences, FiniteSets, TLC

\* ---------------------------------------------------------------- bounds
MaxCalls == 2        \* runJob invocations in one behaviour
MaxLines == 2        \* observations in one host's parsed output
MaxNow   == 2        \* days the clock may advance
MaxFaults == 1       \* storage statements that throw in one behaviour
MaxTextLines == 2    \* lines in one answer of a switch

\* ---------------------------------------------------------------- universe
\* j1 and j2 can run; j3 is paused, j4 has no enabled host, j5 does not exist
JobIds == {"j1", "j2", "j3", "j4", "j5"}
Calls  == 1..MaxCalls
Macs   == {"m1", "m2"}

\* the observations a host's MAC table can yield after parsing
\* (Job.js 469-476: mac_address, vlan_id, interface_name, host_name)
Obs(mac, vlan, iface, host) ==
  [mac_address |-> mac, vlan_id |-> vlan, interface_name |-> iface, host_name |-> host]

\* switch h1 reports the whitelisted m1 on one of two ports, h2 reports m2
LinesOf(host) ==
  IF host = "h1" THEN { Obs("m1", 10, "Gi0/1", host), Obs("m1", 20, "Gi0/2", host) }
  ELSE { Obs("m2", 10, "Gi0/1", host) }

RECURSIVE SeqsUpTo(_, _)
SeqsUpTo(S, n) ==
  IF n = 0 THEN { <<>> }
  ELSE LET shorter == SeqsUpTo(S, n - 1)
       IN  shorter \cup { Append(s, x) : s \in { t \in shorter : Len(t) = n - 1 }, x \in S }

\* what the await on sshService.getMacAddressTable can deliver
\*   ok     : result.success, result.devices = the parsed table
\*   fail   : result.success = false with result.error; executeCommand resolves
\*            this way on its 60 s timeout and on a connection error alike
\*            (Job.js 300-308, 358-368), the error text being all that differs
\*   reject : the promise rejects (an exception inside the call)
HostResults(host) ==
  { [kind |-> "ok", error |-> "", devices |-> s] : s \in SeqsUpTo(LinesOf(host), MaxLines) }
  \cup { [kind |-> "fail", error |-> "timeout", devices |-> <<>>] }
  \cup { [kind |-> "reject", error |-> "exception", devices |-> <<>>] }

\* ---------------------------------------------------------------- switch output
\* A text is the sequence of its lines (output.split('\n')), a line the sequence
\* of its tokens (trimmedLine.split(/\s+/) of a line that is not blank, no token
\* for a blank one), a token the sequence of its characters.
Digits    == << "0", "1", "2", "3", "4", "5", "6", "7", "8", "9" >>
UpperCase == << "A", "B", "C", "D", "E", "F", "G", "H", "I", "J", "K", "L", "M",
                "N", "O", "P", "Q", "R", "S", "T", "U", "V", "W", "X", "Y", "Z" >>
LowerCase == << "a", "b", "c", "d", "e", "f", "g", "h", "i", "j", "k", "l", "m",
                "n", "o", "p", "q", "r", "s", "t", "u", "v", "w", "x", "y", "z" >>

Has(chars, ch) == \E i \in DOMAIN chars : chars[i] = ch

IndexOf(chars, ch) == CHOOSE i \in DOMAIN chars : chars[i] = ch

\* Array.prototype.join
RECURSIVE join(_, _)
join(parts, sep) ==
  IF Len(parts) = 0 THEN << >>
  ELSE IF Len(parts) = 1 THEN parts[1]
  ELSE parts[1] \o sep \o join(Tail(parts), sep)

\* the six groups of one address, in lower and in upper case
GroupsLower == << << "a", "a" >>, << "b", "b" >>, << "c", "c" >>,
                  << "0", "0" >>, << "1", "1" >>, << "2", "2" >> >>
GroupsUpper == << << "A", "A" >>, << "B", "B" >>, << "C", "C" >>,
                  << "0", "0" >>, << "1", "1" >>, << "2", "2" >> >>

\* aa:bb:cc:00:11:22, AA:BB:CC:00:11:22, aa-bb-cc-00-11-22, AA-BB-CC-00-11-22,
\* aabb.cc00.1122 and aa:bb:cc:00:11
MacTokens ==
  { join(GroupsLower, << ":" >>), join(GroupsUpper, << ":" >>),
    join(GroupsLower, << "-" >>), join(GroupsUpper, << "-" >>),
    << "a", "a", "b", "b", ".", "c", "c", "0", "0", ".", "1", "1", "2", "2" >>,
    join(SubSeq(GroupsLower, 1, 5), << ":" >>) }

\* 10, 10abc and All
VlanTokens == { << "1", "0" >>, << "1", "0", "a", "b", "c" >>, << "A", "l", "l" >> }

TypeToken == << "d", "y", "n", "a", "m", "i", "c" >>

PortToken == << "G", "i", "0", "/", "1" >>

\* entries of a MAC table, an entry without its port, an entry whose port is
\* written in two words, and the header line
Lines ==
  { << v, m, TypeToken, PortToken >> : v \in VlanTokens, m \in MacTokens }
  \cup { << << "1", "0" >>, join(GroupsLower, << ":" >>), TypeToken >>,
         << << "1", "0" >>, join(GroupsLower, << ":" >>), TypeToken,
            << "P", "o" >>, << "1" >> >>,
         << << "V", "l", "a", "n", "I", "d" >>, << "M", "a", "c" >>,
            << "T", "y", "p", "e" >>, << "P", "o", "r", "t", "s" >> >> }

\* ''.split('\n') is [''], one blank line
EmptyText == << << >> >>

\* executeCommand resolves with output.trim() (Job.js 336-342): the empty text,
\* or up to MaxTextLines lines
Texts == { EmptyText } \cup (SeqsUpTo(Lines, MaxTextLines) \ { << >> })

\* ---------------------------------------------------------------- state
VARIABLES
  jobs,            \* table jobs: job id -> row (only existing jobs)
  ssh_hosts,       \* table ssh_hosts: job id -> sequence of host rows
  job_whitelist,   \* table job_whitelist: job id -> set of MACs
  job_runs,        \* table job_runs: sequence of rows, run id = index
  known_devices,   \* table known_devices: <<job, mac, host>> -> row
  device_history,  \* table device_history: sequence of rows
  notifications,   \* table notifications: sequence of rows
  runningJobs,     \* MacScanRunner.runningJobs: job id -> [runId]
  calls,           \* the runJob invocations: call -> frame (locals + pc)
  active,          \* the invocation holding the event loop, or 0 when it is free
  now,             \* CURRENT_TIMESTAMP, in days
  faults,          \* storage statements that have thrown so far
  output,          \* SSHService: the text a switch answered, as lines of tokens
  scan             \* SSHService.getMacAddressTable: its position and its result

vars == << jobs, ssh_hosts, job_whitelist, job_runs, known_devices,
           device_history, notifications, runningJobs, calls, active, now, faults,
           output, scan >>

parser == << output, scan >>

dbvars == << jobs, ssh_hosts, job_whitelist, job_runs, known_devices,
             device_history, notifications >>

\* ---------------------------------------------------------------- helpers
EmptyMap == [x \in {} |-> x]

MapPut(f, k, v) == [x \in (DOMAIN f) \cup {k} |-> IF x = k THEN v ELSE f[x]]

MapDel(f, k) == [x \in (DOMAIN f) \ {k} |-> f[x]]

\* jobs rows as Job.save writes them (Job.js 25-52); the 0/1 flags are read
\* for their truth value only
JobRow(name, status, notif, policy) ==
  [ name                     |-> name,
    status                   |-> status,
    notifications_enabled    |-> notif,
    notify_new_macs          |-> TRUE,
    notify_unauthorized_macs |-> TRUE,
    notify_ip_changes        |-> TRUE,
    retention_policy         |-> policy,
    retention_days           |-> 1 ]

\* the frame of an invocation that has not been made yet
IdleFrame ==
  [ pc              |-> "idle",
    jobId           |-> "",
    outcome         |-> "none",
    passed          |-> FALSE,
    runId           |-> 0,
    job             |-> JobRow("", "", FALSE, ""),
    sshHosts        |-> << >>,
    whitelist       |-> {},
    hostIdx         |-> 0,
    allDevices      |-> << >>,
    debugInfo       |-> << >>,
    successfulHosts |-> 0,
    hostResults     |-> << >>,
    knownDevices    |-> EmptyMap,
    kdBefore        |-> EmptyMap,
    devIdx          |-> 0,
    newDevices      |-> 0,
    warnings        |-> 0,
    error           |-> "" ]

\* getMacAddressTable before it is called
IdleScan ==
  [ pc |-> "idle", line |-> 0, devices |-> << >>, success |-> FALSE, error |-> "" ]

\* ---------------------------------------------------------------- initial state
HostRow(name, host, enabled) == [name |-> name, host |-> host, enabled |-> enabled]

RetentionPolicies == {"forever", "remove", "days"}

\* the configurations of job j1: every retention policy with all notification
\* toggles on, and each toggle switched off in turn
JobConfigs ==
  { [notif |-> TRUE, new |-> TRUE, unauth |-> TRUE, ip |-> TRUE, policy |-> p] :
      p \in RetentionPolicies }
  \cup { [notif |-> FALSE, new |-> TRUE,  unauth |-> TRUE,  ip |-> TRUE,  policy |-> "remove"],
         [notif |-> TRUE,  new |-> FALSE, unauth |-> TRUE,  ip |-> TRUE,  policy |-> "forever"],
         [notif |-> TRUE,  new |-> TRUE,  unauth |-> FALSE, ip |-> TRUE,  policy |-> "remove"],
         [notif |-> TRUE,  new |-> TRUE,  unauth |-> TRUE,  ip |-> FALSE, policy |-> "days"] }

\* a row of known_devices (init.js 97-110)
DeviceRow(iface, vlan, whitelisted, first, last, status) ==
  [ interface_name |-> iface,
    vlan_id        |-> vlan,
    whitelisted    |-> whitelisted,
    first_seen     |-> first,
    last_seen      |-> last,
    status         |-> status ]

\* j2 keeps its devices forever; an earlier scan saw m2 on another port of h2 and
\* the scan after it did not see it
EngineInit ==
  \E cfg \in JobConfigs :
    /\ jobs = [j \in JobIds \ {"j5"} |->
                 IF j = "j1"
                 THEN [JobRow("job-j1", "active", cfg.notif, cfg.policy) EXCEPT
                         !.notify_new_macs = cfg.new,
                         !.notify_unauthorized_macs = cfg.unauth,
                         !.notify_ip_changes = cfg.ip]
                 ELSE IF j = "j2" THEN JobRow("job-j2", "active", TRUE, "forever")
                 ELSE IF j = "j3" THEN JobRow("job-j3", "inactive", TRUE, "forever")
                 ELSE JobRow("job-" \o j, "active", TRUE, "remove")]
    /\ ssh_hosts = [j \in JobIds |->
                      IF j = "j1"
                      THEN << HostRow("swA", "h1", TRUE), HostRow("swB", "h2", TRUE),
                              HostRow("swC", "h3", FALSE) >>
                      ELSE IF j \in {"j2", "j3"} THEN << HostRow("swB", "h2", TRUE) >>
                      ELSE IF j = "j4" THEN << HostRow("swA", "h1", FALSE) >>
                      ELSE << >>]
    /\ job_whitelist = [j \in JobIds |-> IF j \in {"j1", "j2"} THEN {"m1"} ELSE {}]
    /\ job_runs = << >>
    /\ known_devices = [k \in { << "j2", "m2", "h2" >> } |->
                          DeviceRow("Gi0/2", 10, FALSE, 0, 0, "inactive")]
    /\ device_history = << >>
    /\ notifications = << >>
    /\ runningJobs = EmptyMap
    /\ calls = [c \in Calls |-> IdleFrame]
    /\ active = 0
    /\ now = 0
    /\ faults = 0

\* the engine at rest, no answer of a switch being parsed
Init ==
  /\ EngineInit
  /\ output = EmptyText
  /\ scan = IdleScan

\* ---------------------------------------------------------------- runJob: preconditions
\* SELECT * FROM ssh_hosts WHERE job_id = ? AND enabled = 1
EnabledHosts(j) == SelectSeq(ssh_hosts[j], LAMBDA h : h.enabled)

isJobRunning(j) == j \in DOMAIN runningJobs

\* runJob without its first check (lines 34-36)
Precondition_NoRegistryCheck(j) ==
  IF ~(j \in DOMAIN jobs /\ jobs[j].status = "active") THEN "NotFound"
  ELSE IF Len(EnabledHosts(j)) = 0 THEN "NoHosts"
  ELSE "ok"

\* runJob without the check of lines 52-54
Precondition_NoHostCheck(j) ==
  IF isJobRunning(j) THEN "AlreadyRunning"
  ELSE IF ~(j \in DOMAIN jobs /\ jobs[j].status = "active") THEN "NotFound"
  ELSE "ok"

\* runJob refusing a job while a run of any job is in flight
Precondition_AnyRunning(j) ==
  IF DOMAIN runningJobs # {} THEN "AlreadyRunning"
  ELSE IF ~(j \in DOMAIN jobs /\ jobs[j].status = "active") THEN "NotFound"
  ELSE IF Len(EnabledHosts(j)) = 0 THEN "NoHosts"
  ELSE "ok"

\* the outcome of the checks runJob makes before it writes anything
Precondition(j) ==
  IF isJobRunning(j) THEN "AlreadyRunning"
  ELSE IF ~(j \in DOMAIN jobs /\ jobs[j].status = "active") THEN "NotFound"
  ELSE IF Len(EnabledHosts(j)) = 0 THEN "NoHosts"
  ELSE "ok"

Raised(c, j, what) ==
  [calls EXCEPT ![c] = [IdleFrame EXCEPT !.pc = "done", !.jobId = j, !.outcome = what]]

\* runJob lines 33-58: the registry check, the three SELECTs, the early throws
RunJob(c, j) ==
  /\ active = 0
  /\ calls[c].pc = "idle"
  /\ IF c = 1 THEN TRUE ELSE calls[c - 1].pc # "idle"
  /\ LET pre == Precondition(j) IN
       IF pre # "ok"
       THEN /\ calls' = Raised(c, j, pre)
            /\ active' = 0
       ELSE /\ calls' = [calls EXCEPT ![c] =
                           [IdleFrame EXCEPT !.pc = "createRun", !.jobId = j, !.passed = TRUE,
                                             !.job = jobs[j], !.sshHosts = EnabledHosts(j),
                                             !.whitelist = job_whitelist[j]]]
            /\ active' = c
  /\ UNCHANGED << dbvars, runningJobs, now, faults >>
  /\ UNCHANGED parser

\* runJob lines 62-68: INSERT INTO job_runs ... 'running'
CreateRun(c) ==
  /\ active = c
  /\ calls[c].pc = "createRun"
  /\ job_runs' = Append(job_runs,
                   [ job_id        |-> calls[c].jobId,
                     status        |-> "running",
                     hosts_scanned |-> Len(calls[c].sshHosts),
                     devices_found |-> 0,
                     new_devices   |-> 0,
                     warnings      |-> 0,
                     error_message |-> "",
                     debug_info    |-> << >>,
                     finalized     |-> 0 ])
  /\ calls' = [calls EXCEPT ![c].pc = "markRunning", ![c].runId = Len(job_runs) + 1]
  /\ UNCHANGED << jobs, ssh_hosts, job_whitelist, known_devices, device_history,
                  notifications, runningJobs, active, now, faults >>
  /\ UNCHANGED parser

\* UPDATE jobs SET status = ? WHERE id = ?
SetJobStatus(j, st) ==
  IF j \in DOMAIN jobs THEN [jobs EXCEPT ![j].status = st] ELSE jobs

\* runJob lines 70-74: job status running, registry entry set
MarkRunning(c) ==
  /\ active = c
  /\ calls[c].pc = "markRunning"
  /\ jobs' = SetJobStatus(calls[c].jobId, "running")
  /\ runningJobs' = MapPut(runningJobs, calls[c].jobId, [runId |-> calls[c].runId])
  /\ calls' = [calls EXCEPT ![c].pc = "scanLoop", ![c].hostIdx = 1]
  /\ UNCHANGED << ssh_hosts, job_whitelist, job_runs, known_devices, device_history,
                  notifications, active, now, faults >>
  /\ UNCHANGED parser

\* ---------------------------------------------------------------- runJob: the host loop
Push(c, field, line) == Append(calls[c][field], line)

\* a line of debugInfo: "start" (line 85), "ok" (103), "failed" (106), "error" (110)
DebugLine(kind, host, error, count) ==
  [kind |-> kind, host |-> host, error |-> error, count |-> count]

\* runJob lines 82-98, decrypt succeeds: the query is sent and runJob awaits it
BeginHostScan(c) ==
  /\ active = c
  /\ calls[c].pc = "scanLoop"
  /\ calls[c].hostIdx <= Len(calls[c].sshHosts)
  /\ calls' = [calls EXCEPT
       ![c].debugInfo = Push(c, "debugInfo",
                             DebugLine("start", calls[c].sshHosts[calls[c].hostIdx].name, "", 0)),
       ![c].pc = "await"]
  /\ active' = 0
  /\ UNCHANGED << dbvars, runningJobs, now, faults >>
  /\ UNCHANGED parser

\* runJob lines 82-88 and 109-112: CryptoService.decrypt throws (CryptoService.js
\* 39-42); the host's catch records it and the loop goes on without an await
DecryptThrows(c) ==
  /\ active = c
  /\ calls[c].pc = "scanLoop"
  /\ calls[c].hostIdx <= Len(calls[c].sshHosts)
  /\ LET name == calls[c].sshHosts[calls[c].hostIdx].name IN
       calls' = [calls EXCEPT
         ![c].debugInfo = Push(c, "debugInfo", DebugLine("start", name, "", 0))
                            \o << DebugLine("error", name, "exception", 0) >>,
         ![c].hostResults = Push(c, "hostResults",
                                 [kind |-> "reject", error |-> "exception", devices |-> << >>]),
         ![c].hostIdx = @ + 1]
  /\ UNCHANGED << dbvars, runningJobs, active, now, faults >>
  /\ UNCHANGED parser

\* the host loop without its own try/catch: a host that does not succeed
\* throws out of the loop into the catch block of the run
HostResult_Rethrows(c, res) ==
  /\ active = 0
  /\ calls[c].pc = "await"
  /\ LET h == calls[c].sshHosts[calls[c].hostIdx] IN
       /\ res \in HostResults(h.host)
       /\ calls' = [calls EXCEPT
            ![c].successfulHosts = IF res.kind = "ok" THEN @ + 1 ELSE @,
            ![c].allDevices = IF res.kind = "ok" THEN @ \o res.devices ELSE @,
            ![c].debugInfo = Append(@,
                 IF res.kind = "ok" THEN DebugLine("ok", h.name, "", Len(res.devices))
                 ELSE DebugLine("failed", h.name, res.error, 0)),
            ![c].hostResults = Append(@, res),
            ![c].hostIdx = @ + 1,
            ![c].error = IF res.kind = "ok" THEN @ ELSE res.error,
            ![c].pc = IF res.kind = "ok" THEN "scanLoop" ELSE "catch"]
  /\ active' = c
  /\ UNCHANGED << dbvars, runningJobs, now, faults >>
  /\ UNCHANGED parser

\* the host loop putting a host's devices before those of the hosts scanned
\* earlier
HostResult_Prepends(c, res) ==
  /\ active = 0
  /\ calls[c].pc = "await"
  /\ LET h == calls[c].sshHosts[calls[c].hostIdx] IN
       /\ res \in HostResults(h.host)
       /\ calls' = [calls EXCEPT
            ![c].successfulHosts = IF res.kind = "ok" THEN @ + 1 ELSE @,
            ![c].allDevices = IF res.kind = "ok" THEN res.devices \o @ ELSE @,
            ![c].debugInfo = Append(@,
                 IF res.kind = "ok" THEN DebugLine("ok", h.name, "", Len(res.devices))
                 ELSE IF res.kind = "fail" THEN DebugLine("failed", h.name, res.error, 0)
                 ELSE DebugLine("error", h.name, res.error, 0)),
            ![c].hostResults = Append(@, res),
            ![c].hostIdx = @ + 1,
            ![c].pc = "scanLoop"]
  /\ active' = c
  /\ UNCHANGED << dbvars, runningJobs, now, faults >>
  /\ UNCHANGED parser

\* runJob lines 98-112: the awaited query resolves or rejects; a failure of this
\* host is recorded in debugInfo and the loop goes on to the next host
HostResult(c, res) ==
  /\ active = 0
  /\ calls[c].pc = "await"
  /\ LET h == calls[c].sshHosts[calls[c].hostIdx] IN
       /\ res \in HostResults(h.host)
       /\ calls' = [calls EXCEPT
            ![c].successfulHosts = IF res.kind = "ok" THEN @ + 1 ELSE @,
            ![c].allDevices = IF res.kind = "ok" THEN @ \o res.devices ELSE @,
            ![c].debugInfo = Append(@,
                 IF res.kind = "ok" THEN DebugLine("ok", h.name, "", Len(res.devices))
                 ELSE IF res.kind = "fail" THEN DebugLine("failed", h.name, res.error, 0)
                 ELSE DebugLine("error", h.name, res.error, 0)),
            ![c].hostResults = Append(@, res),
            ![c].hostIdx = @ + 1,
            ![c].pc = "scanLoop"]
  /\ active' = c
  /\ UNCHANGED << dbvars, runningJobs, now, faults >>
  /\ UNCHANGED parser

\* the event loop delivers the outcome of the SSH query of the host being scanned
AwaitResolves(c) ==
  /\ calls[c].pc = "await"
  /\ \E res \in HostResults(calls[c].sshHosts[calls[c].hostIdx].host) : HostResult(c, res)

\* SELECT * FROM known_devices WHERE job_id = ?, as the Map keyed `${mac}:${host}`
\* (_processDevices lines 176-182)
LoadKnownDevices(j) ==
  [k \in { << d[2], d[3] >> : d \in { x \in DOMAIN known_devices : x[1] = j } }
     |-> known_devices[<< j, k[1], k[2] >>]]

\* runJob without the check of lines 115-117
AfterScan_NoCheck(c) ==
  /\ active = c
  /\ calls[c].pc = "scanLoop"
  /\ calls[c].hostIdx > Len(calls[c].sshHosts)
  /\ calls' = [calls EXCEPT ![c].pc = "process",
                            ![c].knownDevices = LoadKnownDevices(calls[c].jobId),
                            ![c].kdBefore = LoadKnownDevices(calls[c].jobId),
                            ![c].devIdx = 1]
  /\ UNCHANGED << dbvars, runningJobs, active, now, faults >>
  /\ UNCHANGED parser

\* runJob lines 115-120: no successful host throws; otherwise _processDevices
\* starts and loads the job's known devices
AfterScan(c) ==
  /\ active = c
  /\ calls[c].pc = "scanLoop"
  /\ calls[c].hostIdx > Len(calls[c].sshHosts)
  /\ IF calls[c].successfulHosts = 0
     THEN calls' = [calls EXCEPT ![c].pc = "catch", ![c].error = "AllHostsFailed"]
     ELSE calls' = [calls EXCEPT ![c].pc = "process",
                                 ![c].knownDevices = LoadKnownDevices(calls[c].jobId),
                                 ![c].kdBefore = LoadKnownDevices(calls[c].jobId),
                                 ![c].devIdx = 1]
  /\ UNCHANGED << dbvars, runningJobs, active, now, faults >>
  /\ UNCHANGED parser

\* ---------------------------------------------------------------- _processDevices
DeviceKey(dev) == << dev.mac_address, dev.host_name >>

TableKey(j, dev) == << j, dev.mac_address, dev.host_name >>

\* NotificationService.createNotification: one row appended to notifications
createNotification(rows, n) == Append(rows, n)

Notification(f, type, message, dev) ==
  [ job_id         |-> f.jobId,
    job_name       |-> f.job.name,
    type           |-> type,
    message        |-> message,
    mac_address    |-> dev.mac_address,
    host_name      |-> dev.host_name,
    interface_name |-> dev.interface_name,
    read           |-> FALSE ]

\* the notifications of a new device without the test of notifications_enabled
NewDeviceNotes_IgnoresMaster(f, dev) ==
  IF dev.mac_address \in f.whitelist /\ f.job.notify_new_macs
    THEN << Notification(f, "information",
                         << "new-authorized", dev.mac_address, dev.host_name >>, dev) >>
  ELSE IF dev.mac_address \notin f.whitelist /\ f.job.notify_unauthorized_macs
    THEN << Notification(f, "warning",
                         << "unauthorized", dev.mac_address, dev.host_name >>, dev) >>
  ELSE << >>

\* the notifications of a new device without the tests of notify_new_macs and
\* notify_unauthorized_macs
NewDeviceNotes_IgnoresToggles(f, dev) ==
  IF ~f.job.notifications_enabled THEN << >>
  ELSE IF dev.mac_address \in f.whitelist
    THEN << Notification(f, "information",
                         << "new-authorized", dev.mac_address, dev.host_name >>, dev) >>
    ELSE << Notification(f, "warning",
                         << "unauthorized", dev.mac_address, dev.host_name >>, dev) >>

\* lines 210-234: the notifications (none or one) of a newly discovered device
NewDeviceNotes(f, dev) ==
  LET isWhitelisted == dev.mac_address \in f.whitelist IN
    IF ~f.job.notifications_enabled THEN << >>
    ELSE IF isWhitelisted /\ f.job.notify_new_macs
      THEN << Notification(f, "information",
                           << "new-authorized", dev.mac_address, dev.host_name >>, dev) >>
    ELSE IF ~isWhitelisted /\ f.job.notify_unauthorized_macs
      THEN << Notification(f, "warning",
                           << "unauthorized", dev.mac_address, dev.host_name >>, dev) >>
    ELSE << >>

\* the notification of an existing device without the test of notify_ip_changes
MovedNotes_IgnoresToggle(f, dev, existingDevice) ==
  IF existingDevice.interface_name # dev.interface_name /\ f.job.notifications_enabled
  THEN << Notification(f, "information",
                       << "moved", dev.mac_address, existingDevice.interface_name,
                          dev.interface_name, dev.host_name >>, dev) >>
  ELSE << >>

\* lines 236-247: the notification (none or one) of an existing device
MovedNotes(f, dev, existingDevice) ==
  IF existingDevice.interface_name # dev.interface_name
     /\ f.job.notifications_enabled /\ f.job.notify_ip_changes
  THEN << Notification(f, "information",
                       << "moved", dev.mac_address, existingDevice.interface_name,
                          dev.interface_name, dev.host_name >>, dev) >>
  ELSE << >>

\* the INSERT with the whitelisted column left at its default 0
InsertDevice_NotWhitelisted(f, dev) ==
  MapPut(known_devices, TableKey(f.jobId, dev),
         [ interface_name |-> dev.interface_name,
           vlan_id        |-> dev.vlan_id,
           whitelisted    |-> FALSE,
           first_seen     |-> now,
           last_seen      |-> now,
           status         |-> "active" ])

\* the INSERT with the whitelisted flag computed from the table job_whitelist as
\* it is when the statement runs
InsertDevice_CurrentWhitelist(f, dev) ==
  MapPut(known_devices, TableKey(f.jobId, dev),
         [ interface_name |-> dev.interface_name,
           vlan_id        |-> dev.vlan_id,
           whitelisted    |-> dev.mac_address \in job_whitelist[f.jobId],
           first_seen     |-> now,
           last_seen      |-> now,
           status         |-> "active" ])

\* lines 195-208: INSERT INTO known_devices
InsertDevice(f, dev) ==
  MapPut(known_devices, TableKey(f.jobId, dev),
         [ interface_name |-> dev.interface_name,
           vlan_id        |-> dev.vlan_id,
           whitelisted    |-> dev.mac_address \in f.whitelist,
           first_seen     |-> now,
           last_seen      |-> now,
           status         |-> "active" ])

\* the UPDATE setting first_seen as the INSERT does
UpdateDevice_ResetsFirstSeen(f, dev) ==
  IF TableKey(f.jobId, dev) \in DOMAIN known_devices
  THEN [known_devices EXCEPT ![TableKey(f.jobId, dev)] =
          [@ EXCEPT !.interface_name = dev.interface_name, !.vlan_id = dev.vlan_id,
                    !.first_seen = now, !.last_seen = now, !.status = "active"]]
  ELSE known_devices

\* the UPDATE without `status = 'active'`
UpdateDevice_KeepsStatus(f, dev) ==
  IF TableKey(f.jobId, dev) \in DOMAIN known_devices
  THEN [known_devices EXCEPT ![TableKey(f.jobId, dev)] =
          [@ EXCEPT !.interface_name = dev.interface_name, !.vlan_id = dev.vlan_id,
                    !.last_seen = now]]
  ELSE known_devices

\* the UPDATE also setting whitelisted from the whitelist of the run
UpdateDevice_SetsWhitelisted(f, dev) ==
  IF TableKey(f.jobId, dev) \in DOMAIN known_devices
  THEN [known_devices EXCEPT ![TableKey(f.jobId, dev)] =
          [@ EXCEPT !.interface_name = dev.interface_name, !.vlan_id = dev.vlan_id,
                    !.whitelisted = dev.mac_address \in f.whitelist,
                    !.last_seen = now, !.status = "active"]]
  ELSE known_devices

\* lines 250-261: UPDATE known_devices ... WHERE job_id, mac_address, host_name
UpdateDevice(f, dev) ==
  IF TableKey(f.jobId, dev) \in DOMAIN known_devices
  THEN [known_devices EXCEPT ![TableKey(f.jobId, dev)] =
          [@ EXCEPT !.interface_name = dev.interface_name, !.vlan_id = dev.vlan_id,
                    !.last_seen = now, !.status = "active"]]
  ELSE known_devices

\* lines 268-279: INSERT INTO device_history
HistoryRow(f, dev) ==
  [ job_id         |-> f.jobId,
    mac_address    |-> dev.mac_address,
    host_name      |-> dev.host_name,
    interface_name |-> dev.interface_name,
    vlan_id        |-> dev.vlan_id,
    detected_at    |-> now ]

\* The statements of one iteration of the loop over devices (lines 185-280), in
\* the order the code runs them, up to but not including statement number upto:
\*   new device:      1 INSERT known_devices, 2 createNotification, 3 INSERT history
\*   existing device: 1 createNotification,   2 UPDATE known_devices, 3 INSERT history
IterationWrites(c, upto) ==
  LET f        == calls[c]
      dev      == f.allDevices[f.devIdx]
      existing == DeviceKey(dev) \in DOMAIN f.knownDevices
      notes    == IF existing THEN MovedNotes(f, dev, f.knownDevices[DeviceKey(dev)])
                  ELSE NewDeviceNotes(f, dev)
      written  == IF Len(notes) = 0 THEN notifications
                  ELSE createNotification(notifications, notes[1])
  IN /\ known_devices' =
          IF existing THEN (IF upto > 2 THEN UpdateDevice(f, dev) ELSE known_devices)
          ELSE (IF upto > 1 THEN InsertDevice(f, dev) ELSE known_devices)
     /\ notifications' =
          IF existing THEN (IF upto > 1 THEN written ELSE notifications)
          ELSE (IF upto > 2 THEN written ELSE notifications)
     /\ device_history' =
          IF upto > 3 THEN Append(device_history, HistoryRow(f, dev)) ELSE device_history

\* the INSERT of a device whose (job, mac, host) row exists violates
\* UNIQUE(job_id, mac_address, host_name) (init.js line 109) and throws
InsertViolatesUnique(c) ==
  LET f   == calls[c]
      dev == f.allDevices[f.devIdx]
  IN  /\ DeviceKey(dev) \notin DOMAIN f.knownDevices
      /\ TableKey(f.jobId, dev) \in DOMAIN known_devices

\* _processDevices lines 185-280: one iteration of the loop over the batch
ProcessDevice(c) ==
  /\ active = c
  /\ calls[c].pc = "process"
  /\ calls[c].devIdx <= Len(calls[c].allDevices)
  /\ LET f        == calls[c]
         dev      == f.allDevices[f.devIdx]
         existing == DeviceKey(dev) \in DOMAIN f.knownDevices
         notes    == NewDeviceNotes(f, dev)
     IN IF InsertViolatesUnique(c)
        THEN /\ calls' = [calls EXCEPT ![c].pc = "catch", ![c].error = "UniqueConstraint"]
             /\ UNCHANGED << known_devices, notifications, device_history >>
        ELSE /\ IterationWrites(c, 4)
             /\ calls' = [calls EXCEPT
                  ![c].newDevices = IF existing THEN @ ELSE @ + 1,
                  ![c].warnings = IF ~existing /\ Len(notes) = 1 /\ notes[1].type = "warning"
                                  THEN @ + 1 ELSE @,
                  ![c].knownDevices = IF existing THEN MapDel(@, DeviceKey(dev)) ELSE @,
                  ![c].devIdx = @ + 1]
  /\ UNCHANGED << jobs, ssh_hosts, job_whitelist, job_runs, runningJobs, active, now, faults >>
  /\ UNCHANGED parser

\* the unseen devices deleted instead of marked
SetInactive_Deletes(j, keys) ==
  [k \in { x \in DOMAIN known_devices : ~(x[1] = j /\ << x[2], x[3] >> \in keys) }
     |-> known_devices[k]]

\* UPDATE known_devices SET status = 'inactive' for each key in keys
SetInactive(j, keys) ==
  [k \in DOMAIN known_devices |->
     IF k[1] = j /\ << k[2], k[3] >> \in keys
     THEN [known_devices[k] EXCEPT !.status = "inactive"]
     ELSE known_devices[k]]

\* the unseen devices marked only when their host answered in this run
MarkInactive_OnlyScannedHosts(c) ==
  /\ active = c
  /\ calls[c].pc = "process"
  /\ calls[c].devIdx > Len(calls[c].allDevices)
  /\ known_devices' =
       SetInactive(calls[c].jobId,
                   { key \in DOMAIN calls[c].knownDevices :
                       \E i \in DOMAIN calls[c].hostResults :
                         /\ calls[c].hostResults[i].kind = "ok"
                         /\ calls[c].sshHosts[i].host = key[2] })
  /\ calls' = [calls EXCEPT ![c].pc = "retention"]
  /\ UNCHANGED << jobs, ssh_hosts, job_whitelist, job_runs, device_history, notifications,
                  runningJobs, active, now, faults >>
  /\ UNCHANGED parser

\* _processDevices lines 282-290: what is left in the Map was not seen
MarkInactive(c) ==
  /\ active = c
  /\ calls[c].pc = "process"
  /\ calls[c].devIdx > Len(calls[c].allDevices)
  /\ known_devices' = SetInactive(calls[c].jobId, DOMAIN calls[c].knownDevices)
  /\ calls' = [calls EXCEPT ![c].pc = "retention"]
  /\ UNCHANGED << jobs, ssh_hosts, job_whitelist, job_runs, device_history, notifications,
                  runningJobs, active, now, faults >>
  /\ UNCHANGED parser

\* the DELETEs without `job_id = ?`
RetentionDeletes_AllJobs(j, job) ==
  IF job.retention_policy = "remove"
  THEN { k \in DOMAIN known_devices : known_devices[k].status = "inactive" }
  ELSE IF job.retention_policy = "days"
  THEN { k \in DOMAIN known_devices :
           /\ known_devices[k].status = "inactive"
           /\ known_devices[k].last_seen < now - job.retention_days }
  ELSE {}

\* policy remove handled as policy days is
RetentionDeletes_RemoveByAge(j, job) ==
  IF job.retention_policy \in {"remove", "days"}
  THEN { k \in DOMAIN known_devices :
           /\ k[1] = j
           /\ known_devices[k].status = "inactive"
           /\ known_devices[k].last_seen < now - job.retention_days }
  ELSE {}

\* the DELETE of policy days with <= in the place of <
RetentionDeletes_Inclusive(j, job) ==
  IF job.retention_policy = "remove"
  THEN { k \in DOMAIN known_devices : k[1] = j /\ known_devices[k].status = "inactive" }
  ELSE IF job.retention_policy = "days"
  THEN { k \in DOMAIN known_devices :
           /\ k[1] = j
           /\ known_devices[k].status = "inactive"
           /\ known_devices[k].last_seen <= now - job.retention_days }
  ELSE {}

\* _applyRetentionPolicy lines 306-326: the rows the DELETE removes
RetentionDeletes(j, job) ==
  IF job.retention_policy = "remove"
  THEN { k \in DOMAIN known_devices : k[1] = j /\ known_devices[k].status = "inactive" }
  ELSE IF job.retention_policy = "days"
  THEN { k \in DOMAIN known_devices :
           /\ k[1] = j
           /\ known_devices[k].status = "inactive"
           /\ known_devices[k].last_seen < now - job.retention_days }
  ELSE {}

\* _processDevices line 293
ApplyRetention(c) ==
  /\ active = c
  /\ calls[c].pc = "retention"
  /\ known_devices' =
       [k \in (DOMAIN known_devices) \ RetentionDeletes(calls[c].jobId, calls[c].job)
          |-> known_devices[k]]
  /\ calls' = [calls EXCEPT ![c].pc = "updateRun"]
  /\ UNCHANGED << jobs, ssh_hosts, job_whitelist, job_runs, device_history, notifications,
                  runningJobs, active, now, faults >>
  /\ UNCHANGED parser

\* UPDATE job_runs SET ... WHERE id = ?: a row that was deleted (its place in the
\* sequence holds status "deleted", run ids being never reused) matches nothing
UpdateRun(runId, row) ==
  IF job_runs[runId].status = "deleted" THEN job_runs
  ELSE [job_runs EXCEPT ![runId] = row]

\* the count of the batch short by one
devicesFound_OffByOne(devices) == Len(devices) - 1

\* _processDevices lines 295-299: devicesFound of the returned counters
devicesFound(devices) == Len(devices)

\* ---------------------------------------------------------------- runJob: the end of a run
\* runJob lines 122-137: UPDATE job_runs SET status = 'completed' ...; reading
\* this.runningJobs.get(jobId).startTime throws when the entry is not there.
\* finalized counts the UPDATEs that gave the row a final status.
UpdateRunCompleted(c) ==
  /\ active = c
  /\ calls[c].pc = "updateRun"
  /\ IF ~isJobRunning(calls[c].jobId)
     THEN /\ calls' = [calls EXCEPT ![c].pc = "catch", ![c].error = "TypeError"]
          /\ UNCHANGED job_runs
     ELSE /\ job_runs' = UpdateRun(calls[c].runId,
                [job_runs[calls[c].runId] EXCEPT
                          !.status = "completed",
                          !.devices_found = devicesFound(calls[c].allDevices),
                          !.new_devices = calls[c].newDevices,
                          !.warnings = calls[c].warnings,
                          !.debug_info = calls[c].debugInfo,
                          !.finalized = @ + 1])
          /\ calls' = [calls EXCEPT ![c].pc = "resetJob"]
  /\ UNCHANGED << jobs, ssh_hosts, job_whitelist, known_devices, device_history,
                  notifications, runningJobs, active, now, faults >>
  /\ UNCHANGED parser

\* runJob lines 139-143: the job goes back to active and runJob is about to return
ResetJob(c) ==
  /\ active = c
  /\ calls[c].pc = "resetJob"
  /\ jobs' = SetJobStatus(calls[c].jobId, "active")
  /\ calls' = [calls EXCEPT ![c].pc = "finally", ![c].outcome = "returned"]
  /\ UNCHANGED << ssh_hosts, job_whitelist, job_runs, known_devices, device_history,
                  notifications, runningJobs, active, now, faults >>
  /\ UNCHANGED parser

\* the catch block without the reset of lines 156-158
CatchResetJob_KeepsRunning(c) ==
  /\ active = c
  /\ calls[c].pc = "catchReset"
  /\ calls' = [calls EXCEPT ![c].pc = "finally", ![c].outcome = calls[c].error]
  /\ UNCHANGED << jobs, ssh_hosts, job_whitelist, job_runs, known_devices, device_history,
                  notifications, runningJobs, active, now, faults >>
  /\ UNCHANGED parser

\* runJob lines 145-154: the catch block marks the run failed
CatchUpdateRun(c) ==
  /\ active = c
  /\ calls[c].pc = "catch"
  /\ job_runs' = UpdateRun(calls[c].runId,
        [job_runs[calls[c].runId] EXCEPT
                  !.status = "failed", !.error_message = calls[c].error,
                  !.finalized = @ + 1])
  /\ calls' = [calls EXCEPT ![c].pc = "catchReset"]
  /\ UNCHANGED << jobs, ssh_hosts, job_whitelist, known_devices, device_history,
                  notifications, runningJobs, active, now, faults >>
  /\ UNCHANGED parser

\* runJob lines 156-160: the catch block resets the job and rethrows the error
CatchResetJob(c) ==
  /\ active = c
  /\ calls[c].pc = "catchReset"
  /\ jobs' = SetJobStatus(calls[c].jobId, "active")
  /\ calls' = [calls EXCEPT ![c].pc = "finally", ![c].outcome = calls[c].error]
  /\ UNCHANGED << ssh_hosts, job_whitelist, job_runs, known_devices, device_history,
                  notifications, runningJobs, active, now, faults >>
  /\ UNCHANGED parser

\* what is left of a frame once runJob has returned or raised
Ended(f, outcome) ==
  [IdleFrame EXCEPT !.pc = "done", !.jobId = f.jobId, !.outcome = outcome,
                    !.passed = f.passed, !.runId = f.runId]

\* the registry entry deleted at the end of the try block instead of in finally
Finally_OnlyOnSuccess(c) ==
  /\ active = c
  /\ calls[c].pc = "finally"
  /\ runningJobs' = IF calls[c].outcome = "returned"
                    THEN MapDel(runningJobs, calls[c].jobId) ELSE runningJobs
  /\ calls' = [calls EXCEPT ![c] = Ended(calls[c], calls[c].outcome)]
  /\ active' = 0
  /\ UNCHANGED << dbvars, now, faults >>
  /\ UNCHANGED parser

\* runJob lines 161-163: finally, the registry entry is deleted
Finally(c) ==
  /\ active = c
  /\ calls[c].pc = "finally"
  /\ runningJobs' = MapDel(runningJobs, calls[c].jobId)
  /\ calls' = [calls EXCEPT ![c] = Ended(calls[c], calls[c].outcome)]
  /\ active' = 0
  /\ UNCHANGED << dbvars, now, faults >>
  /\ UNCHANGED parser

\* ---------------------------------------------------------------- the environment
\* a day passes (CURRENT_TIMESTAMP and datetime('now') advance)
Tick ==
  /\ active = 0
  /\ now < MaxNow
  /\ now' = now + 1
  /\ UNCHANGED << dbvars, runningJobs, calls, active, faults >>
  /\ UNCHANGED parser

\* ---------------------------------------------------------------- PUT /api/jobs/:id
\* the whitelists an update of a job can send
EditWhitelists == { {"m2"} }

\* the jobs the updates are sent for
EditJobs == {"j1", "j5"}

\* ON DELETE CASCADE (init.js 65, 74, 93, 108, 124, 136): the rows of the child
\* tables that reference job j
CascadeRuns(j) ==
  [r \in DOMAIN job_runs |->
     IF job_runs[r].job_id = j THEN [job_runs[r] EXCEPT !.status = "deleted"]
     ELSE job_runs[r]]

CascadeDevices(j) ==
  [k \in { k \in DOMAIN known_devices : k[1] # j } |-> known_devices[k]]

CascadeRows(rows, j) == SelectSeq(rows, LAMBDA r : r.job_id # j)

\* routes/jobs.js 286-301: every device of the job to 0, then the devices whose
\* MAC is in the whitelist to 1
updateDeviceWhitelistStatus(devices, j, whitelist) ==
  [k \in DOMAIN devices |->
     IF k[1] = j THEN [devices[k] EXCEPT !.whitelisted = (k[2] \in whitelist)]
     ELSE devices[k]]

\* routes/jobs.js 71-89 with Job.save (Job.js 22-99).  The body carries a new
\* whitelist; every other field is the existing one.  INSERT OR REPLACE INTO
\* jobs deletes the job's row before it inserts the new one, and with
\* foreign_keys = ON (init.js 23) the deletion cascades to the job's hosts,
\* whitelist, runs, known devices, notifications and history; save then writes
\* the whitelist and the hosts again.  An unknown job is answered 404.
UpdateJob(j, whitelist) ==
  /\ active = 0
  /\ j \in DOMAIN jobs
  /\ job_whitelist[j] # whitelist
  /\ job_whitelist' = [job_whitelist EXCEPT ![j] = whitelist]
  /\ job_runs' = CascadeRuns(j)
  /\ known_devices' = updateDeviceWhitelistStatus(CascadeDevices(j), j, whitelist)
  /\ notifications' = CascadeRows(notifications, j)
  /\ device_history' = CascadeRows(device_history, j)
  /\ UNCHANGED << jobs, ssh_hosts, runningJobs, calls, active, now, faults >>
  /\ UNCHANGED parser

\* ---------------------------------------------------------------- storage errors
\* A statement of better-sqlite3 throws (disk, lock, constraint).  Where the
\* exception goes depends on where the statement stands in runJob:
\*   lines 62-72  are outside the try: runJob raises, no catch, no finally
\*   lines 119-141 are inside the try: the catch block runs
\*   lines 149-158 are inside the catch: the new exception replaces the first,
\*                the rest of the catch is skipped, finally runs
StorageFault(c) ==
  /\ active = c
  /\ faults < MaxFaults
  /\ faults' = faults + 1
  /\ \/ /\ calls[c].pc \in {"createRun", "markRunning"}
        /\ calls' = [calls EXCEPT ![c] = Ended(calls[c], "StorageError")]
        /\ active' = 0
        /\ UNCHANGED known_devices
     \/ /\ calls[c].pc \in {"retention", "updateRun", "resetJob"}
        /\ calls' = [calls EXCEPT ![c].pc = "catch", ![c].error = "StorageError"]
        /\ UNCHANGED << active, known_devices >>
     \/ \* an UPDATE of the loop of lines 283-290 throws after some of them ran
        /\ calls[c].pc = "process"
        /\ calls[c].devIdx > Len(calls[c].allDevices)
        /\ \E done \in SUBSET (DOMAIN calls[c].knownDevices) :
             /\ done # DOMAIN calls[c].knownDevices
             /\ known_devices' = SetInactive(calls[c].jobId, done)
        /\ calls' = [calls EXCEPT ![c].pc = "catch", ![c].error = "StorageError"]
        /\ UNCHANGED active
     \/ /\ calls[c].pc \in {"catch", "catchReset"}
        /\ calls' = [calls EXCEPT ![c].pc = "finally", ![c].outcome = "StorageError"]
        /\ UNCHANGED << active, known_devices >>
  /\ UNCHANGED << jobs, ssh_hosts, job_whitelist, job_runs, device_history, notifications,
                  runningJobs, now >>
  /\ UNCHANGED parser

\* statement number k of an iteration of the loop over devices throws, after
\* the statements before it have run
ProcessDeviceFault(c, k) ==
  /\ active = c
  /\ faults < MaxFaults
  /\ faults' = faults + 1
  /\ calls[c].pc = "process"
  /\ calls[c].devIdx <= Len(calls[c].allDevices)
  /\ ~InsertViolatesUnique(c)
  /\ LET f        == calls[c]
         dev      == f.allDevices[f.devIdx]
         existing == DeviceKey(dev) \in DOMAIN f.knownDevices
         notes    == IF existing THEN MovedNotes(f, dev, f.knownDevices[DeviceKey(dev)])
                     ELSE NewDeviceNotes(f, dev)
     IN  \* createNotification can only throw where it is called
         (k = (IF existing THEN 1 ELSE 2)) => Len(notes) = 1
  /\ IterationWrites(c, k)
  /\ calls' = [calls EXCEPT ![c].pc = "catch", ![c].error = "StorageError"]
  /\ UNCHANGED << jobs, ssh_hosts, job_whitelist, job_runs, runningJobs, active, now >>
  /\ UNCHANGED parser

\* ---------------------------------------------------------------- SSHService
\* String.prototype.toLowerCase
toLowerCase(token) ==
  [i \in DOMAIN token |->
     IF Has(UpperCase, token[i]) THEN LowerCase[IndexOf(UpperCase, token[i])] ELSE token[i]]

\* the number a sequence of decimal digits writes
RECURSIVE DigitsValue(_)
DigitsValue(digits) ==
  IF Len(digits) = 0 THEN 0
  ELSE 10 * DigitsValue(SubSeq(digits, 1, Len(digits) - 1))
       + (IndexOf(Digits, digits[Len(digits)]) - 1)

\* the length of the longest prefix of the token made of decimal digits
RECURSIVE DigitPrefix(_)
DigitPrefix(token) ==
  IF Len(token) = 0 \/ ~Has(Digits, token[1]) THEN 0
  ELSE 1 + DigitPrefix(Tail(token))

\* parseInt(token, 10): an optional sign, then the digits up to the first
\* character that is not one; NaN when there is no digit there
parseInt(token) ==
  LET signed == Len(token) > 0 /\ token[1] \in {"+", "-"}
      body   == IF signed THEN Tail(token) ELSE token
      n      == DigitPrefix(body)
      value  == DigitsValue(SubSeq(body, 1, n))
  IN  IF n = 0 THEN [nan |-> TRUE, value |-> 0]
      ELSE [nan |-> FALSE, value |-> IF token[1] = "-" THEN 0 - value ELSE value]

isNaN(number) == number.nan

\* [0-9a-f] under the flag i
HexDigit(ch) ==
  \/ Has(Digits, ch)
  \/ Has(SubSeq(LowerCase, 1, 6), ch)
  \/ Has(SubSeq(UpperCase, 1, 6), ch)

\* Job.js 490-493: /^([0-9a-f]{2}[:-]){5}([0-9a-f]{2})$/i
isValidMAC(mac) ==
  /\ Len(mac) = 17
  /\ \A i \in 1..17 :
       IF i % 3 = 0 THEN mac[i] \in {":", "-"} ELSE HexDigit(mac[i])

\* String.prototype.includes for a pattern without white space: the pattern is
\* inside one token of the line
includes(parts, pattern) ==
  \E t \in DOMAIN parts :
    \E i \in 0..(Len(parts[t]) - Len(pattern)) :
      SubSeq(parts[t], i + 1, i + Len(pattern)) = pattern

\* Job.js 447-455: blank lines, header lines and pager lines
Skipped(parts) ==
  \/ Len(parts) = 0
  \/ includes(parts, << "V", "l", "a", "n", "I", "d" >>)
  \/ includes(parts, << "-", "-", "-" >>)
  \/ includes(parts, << "-", "-", "m", "o", "r", "e", "-", "-" >>)
  \/ includes(parts, << "C", "o", "d", "e", "s", ":" >>)
  \/ (Len(parts) > 1 /\ parts[1] = << "p", "v" >>)

\* Job.js 459-478: what one line adds to devices
LineDevices(parts, hostName) ==
  IF Skipped(parts) \/ Len(parts) < 4 THEN << >>
  ELSE LET vlanId        == parseInt(parts[1])
           macAddress    == toLowerCase(parts[2])
           type          == parts[3]
           interfaceName == join(SubSeq(parts, 4, Len(parts)), << " " >>)
       IN  IF isValidMAC(macAddress) /\ ~isNaN(vlanId)
           THEN << [ mac_address    |-> macAddress,
                     vlan_id        |-> vlanId.value,
                     type           |-> type,
                     interface_name |-> interfaceName,
                     host_name      |-> hostName ] >>
           ELSE << >>

\* getMacAddressTable lines 402-415 and parseMacAddressTable lines 440-442:
\* executeCommand succeeded with the text `output`, the parser starts on its
\* lines
ParseStart ==
  /\ scan.pc = "idle"
  /\ output \in Texts
  /\ scan' = [scan EXCEPT !.pc = "lines", !.line = 1]
  /\ UNCHANGED << jobs, ssh_hosts, job_whitelist, job_runs, known_devices, device_history,
                  notifications, runningJobs, calls, active, now, faults, output >>

\* parseMacAddressTable lines 444-479: one iteration of the loop over the lines
ParseLine ==
  /\ scan.pc = "lines"
  /\ scan.line <= Len(output)
  /\ scan' = [scan EXCEPT !.devices = @ \o LineDevices(output[scan.line], "h1"),
                          !.line = @ + 1]
  /\ UNCHANGED << jobs, ssh_hosts, job_whitelist, job_runs, known_devices, device_history,
                  notifications, runningJobs, calls, active, now, faults, output >>

\* parseMacAddressTable lines 481-482 and getMacAddressTable lines 417-421: the
\* devices are returned with the successful result.  No statement of the parser
\* throws on a text, so the catch of lines 423-430 is not entered.
ParseReturn ==
  /\ scan.pc = "lines"
  /\ scan.line > Len(output)
  /\ scan' = [scan EXCEPT !.pc = "returned", !.success = TRUE]
  /\ UNCHANGED << jobs, ssh_hosts, job_whitelist, job_runs, known_devices, device_history,
                  notifications, runningJobs, calls, active, now, faults, output >>

\* ---------------------------------------------------------------- specifications
RunStep(c) ==
  \/ CreateRun(c)
  \/ MarkRunning(c)
  \/ BeginHostScan(c)
  \/ DecryptThrows(c)
  \/ AfterScan(c)
  \/ ProcessDevice(c)
  \/ MarkInactive(c)
  \/ ApplyRetention(c)
  \/ UpdateRunCompleted(c)
  \/ ResetJob(c)
  \/ CatchUpdateRun(c)
  \/ CatchResetJob(c)
  \/ Finally(c)

Next ==
  \/ \E c \in Calls, j \in JobIds : RunJob(c, j)
  \/ \E c \in Calls : RunStep(c)
  \/ \E c \in Calls : AwaitResolves(c)
  \/ Tick

\* the engine with a storage layer that never fails by itself
Spec == Init /\ [][Next]_vars

NextFault ==
  \/ Next
  \/ \E c \in Calls : StorageFault(c)
  \/ \E c \in Calls, k \in 1..3 : ProcessDeviceFault(c, k)

\* the engine with a storage layer whose statements may throw
FaultSpec == Init /\ [][NextFault]_vars

NextEdit ==
  \/ Next
  \/ \E j \in EditJobs, whitelist \in EditWhitelists : UpdateJob(j, whitelist)

\* the engine with the job editor of the API working beside it
EditSpec == Init /\ [][NextEdit]_vars

\* The event loop runs the continuation of an invocation that is ready, and
\* every host query resolves: executeCommand resolves on close, on a connection
\* error or on its 60 s timer at the latest (Job.js 296-308).
Fairness ==
  \A c \in Calls : WF_vars(RunStep(c)) /\ WF_vars(AwaitResolves(c))

\* the engine with an event loop that keeps running and host queries that resolve
LiveSpec == Spec /\ Fairness

ParseInit ==
  /\ EngineInit
  /\ output \in Texts
  /\ scan = IdleScan

ParseNext == ParseStart \/ ParseLine \/ ParseReturn

\* SSHService parsing the answer of one switch
ParseSpec == ParseInit /\ [][ParseNext]_vars

\* ================================================================ properties
InFlight(c) == calls[c].pc \notin {"idle", "done"}

\* the step is the invocation of runJob by call c
Invokes(c) == calls[c].pc = "idle" /\ calls'[c].pc # "idle"

\* the invocation made in this step was refused with `what` and wrote nothing
RefusedWith(c, what) ==
  /\ calls'[c].pc = "done"
  /\ calls'[c].outcome = what
  /\ UNCHANGED << dbvars, runningJobs >>

\* ---------------------------------------------------------------- C1
C1_OneRunInFlight ==
  \A c1, c2 \in Calls :
    (c1 # c2 /\ InFlight(c1) /\ InFlight(c2)) => calls[c1].jobId # calls[c2].jobId

C1_SecondCallRefused ==
  \A c \in Calls :
    (Invokes(c) /\ \E c2 \in Calls : InFlight(c2) /\ calls[c2].jobId = calls'[c].jobId)
      => RefusedWith(c, "AlreadyRunning")

\* C1: at most one run of a job id is in flight at any time, and a runJob made
\* while a run of the same job is in flight fails with AlreadyRunning, creating
\* no JobRun and leaving the Job status, the registry and the inventory alone.
C1_AtMostOneRun == [](C1_OneRunInFlight) /\ [][C1_SecondCallRefused]_vars

\* a call was refused as AlreadyRunning while the run of the same job is in flight
C1_Witness ==
  \E c1, c2 \in Calls :
    /\ calls[c1].outcome = "AlreadyRunning"
    /\ InFlight(c2)
    /\ calls[c2].jobId = calls[c1].jobId

\* ---------------------------------------------------------------- C2
C2_Step ==
  \A c \in Calls :
    Invokes(c) =>
      LET j == calls'[c].jobId IN
        /\ (~isJobRunning(j) /\ (j \notin DOMAIN jobs \/ jobs[j].status # "active"))
             => RefusedWith(c, "NotFound")
        /\ (~isJobRunning(j) /\ j \in DOMAIN jobs /\ jobs[j].status = "active"
              /\ \A i \in DOMAIN ssh_hosts[j] : ~ssh_hosts[j][i].enabled)
             => RefusedWith(c, "NoHosts")

\* C2: a runJob of a job that is missing or not active fails with NotFound, one
\* of an active job without an enabled host fails with NoHosts (in both cases
\* when no run of the job is in the registry, which is checked first); neither
\* creates a JobRun nor changes the Job status, the registry or the inventory.
C2_PreconditionFailures == [][C2_Step]_vars

\* NotFound was raised for a missing job or for a paused one, and NoHosts
\* for a job whose only host is disabled
C2_Witness ==
  \E c1, c2 \in Calls :
    /\ calls[c1].outcome = "NotFound"
    /\ calls[c2].outcome = "NoHosts"
    /\ \A i \in DOMAIN ssh_hosts[calls[c2].jobId] : ~ssh_hosts[calls[c2].jobId][i].enabled

\* ---------------------------------------------------------------- C3
\* a run of job j is in flight
RunInFlight(j) == \E c \in Calls : InFlight(c) /\ calls[c].jobId = j

\* C3: the Job status is running only while a run of the job is in flight; once
\* a runJob that passed its preconditions has returned or raised (storage
\* exceptions included), the Job status is active again.
C3_StatusRestored ==
  /\ \A j \in DOMAIN jobs : jobs[j].status = "running" => RunInFlight(j)
  /\ \A c \in Calls :
       (calls[c].pc = "done" /\ calls[c].passed /\ ~RunInFlight(calls[c].jobId))
         => jobs[calls[c].jobId].status = "active"

\* ---------------------------------------------------------------- C4
C4_RegistryHoldsOnlyRuns ==
  \A j \in DOMAIN runningJobs :
    \E c \in Calls : InFlight(c) /\ calls[c].jobId = j /\ calls[c].runId = runningJobs[j].runId

C4_NoStaleRefusal ==
  \A c \in Calls :
    (Invokes(c) /\ calls'[c].outcome = "AlreadyRunning") => RunInFlight(calls'[c].jobId)

\* C4: the registry holds an entry of a job only while a run of it is in
\* flight: on every exit of a run (completed, failed, storage exception) the
\* entry is gone, and no runJob is refused as AlreadyRunning unless a run of
\* that job is in flight.
C4_RegistryCleared == [](C4_RegistryHoldsOnlyRuns) /\ [][C4_NoStaleRefusal]_vars

\* a run ended by a storage exception, and one that completed; no entry is left
C4_Witness ==
  /\ runningJobs = EmptyMap
  /\ \E c1, c2 \in Calls :
       /\ calls[c1].pc = "done" /\ calls[c1].passed /\ calls[c1].outcome = "StorageError"
       /\ calls[c1].runId # 0
       /\ job_runs[calls[c1].runId].status = "failed"
       /\ calls[c2].pc = "done" /\ calls[c2].outcome = "returned"

\* ---------------------------------------------------------------- C5
\* C5: the JobRun of an invocation is finalized exactly once: its status goes
\* from running to one of completed or failed and is not set again, so a
\* JobRun set to completed is never set to failed afterwards.  (finalized
\* counts the UPDATEs that gave the row a final status.)
C5_FinalizedOnce ==
  \A r \in DOMAIN job_runs : job_runs[r].finalized <= 1

\* ---------------------------------------------------------------- C6
\* every host of the run of call c has been attempted and none succeeded
AllHostsFailed(c) ==
  /\ InFlight(c)
  /\ calls[c].hostIdx > Len(calls[c].sshHosts)
  /\ calls[c].successfulHosts = 0

C6_RunFails ==
  \A c \in Calls :
    AllHostsFailed(c) =>
      /\ calls[c].pc \in {"scanLoop", "catch", "catchReset", "finally"}
      /\ calls[c].pc \in {"catch", "catchReset"} => calls[c].error = "AllHostsFailed"
      /\ calls[c].pc = "finally" =>
           /\ calls[c].outcome = "AllHostsFailed"
           /\ job_runs[calls[c].runId].status = "failed"
           /\ job_runs[calls[c].runId].error_message = "AllHostsFailed"

C6_NoReconciliation ==
  \A c \in Calls :
    (calls'[c] # calls[c] /\ InFlight(c) /\ calls[c].successfulHosts = 0
       /\ calls'[c].successfulHosts = 0)
      => UNCHANGED << known_devices, device_history, notifications >>

\* C6: when every enabled host fails the run raises AllHostsFailed, its JobRun
\* is finalized failed, and the run writes nothing to known_devices,
\* device_history or notifications.
C6_AllHostsFailed == [](C6_RunFails) /\ [][C6_NoReconciliation]_vars

\* a run whose hosts all failed is about to raise, and the job's inventory of an
\* earlier run is still there, active
C6_Witness ==
  \E c \in Calls :
    /\ calls[c].pc = "finally"
    /\ AllHostsFailed(c)
    /\ \E k \in DOMAIN known_devices :
         k[1] = calls[c].jobId /\ known_devices[k].status = "active"

\* ---------------------------------------------------------------- C7
\* the observations of the hosts that succeeded, in host order
RECURSIVE OkDevices(_)
OkDevices(results) ==
  IF Len(results) = 0 THEN << >>
  ELSE (IF Head(results).kind = "ok" THEN Head(results).devices ELSE << >>)
         \o OkDevices(Tail(results))

\* the host loop of the run of call c is over and some host succeeded
SomeHostSucceeded(c) ==
  /\ InFlight(c)
  /\ calls[c].hostIdx > Len(calls[c].sshHosts)
  /\ calls[c].successfulHosts >= 1

\* C7: when at least one enabled host succeeds the run is finalized completed
\* although other hosts failed, and the batch given to _processDevices is the
\* observations of the successful hosts and nothing else.
C7_PartialSuccessCompletes ==
  \A c \in Calls :
    SomeHostSucceeded(c) =>
      /\ calls[c].allDevices = OkDevices(calls[c].hostResults)
      /\ calls[c].pc \notin {"catch", "catchReset"}
      /\ calls[c].pc = "finally" => job_runs[calls[c].runId].status = "completed"

\* ---------------------------------------------------------------- C8
\* the number of scans of host `name` that the run of call c has started
StartLines(c, name) ==
  Cardinality({ n \in DOMAIN calls[c].debugInfo :
                  calls[c].debugInfo[n].kind = "start" /\ calls[c].debugInfo[n].host = name })

\* C8: a run that passed its preconditions attempts every enabled host exactly
\* once, whatever happened to the hosts before it: the loop never ends early,
\* and a host that timed out or threw is a failed host, never the error that
\* fails the run.
C8_EveryHostAttemptedOnce ==
  \A c \in Calls :
    (InFlight(c) /\ calls[c].pc \notin {"createRun", "markRunning"}) =>
      /\ \A i \in DOMAIN calls[c].sshHosts :
           StartLines(c, calls[c].sshHosts[i].name) =
             IF i < calls[c].hostIdx \/ (i = calls[c].hostIdx /\ calls[c].pc = "await")
             THEN 1 ELSE 0
      /\ calls[c].pc \notin {"scanLoop", "await"}
           => calls[c].hostIdx = Len(calls[c].sshHosts) + 1
      /\ calls[c].pc \in {"catch", "catchReset"}
           => calls[c].error \notin {"timeout", "exception"}
      /\ calls[c].successfulHosts =
           Cardinality({ i \in DOMAIN calls[c].hostResults : calls[c].hostResults[i].kind = "ok" })

\* the first host timed out, the second was still scanned and succeeded, and
\* the run goes on to reconcile
C8_Witness ==
  \E c \in Calls :
    /\ calls[c].pc = "process"
    /\ Len(calls[c].hostResults) = 2
    /\ calls[c].hostResults[1].error = "timeout"
    /\ calls[c].hostResults[2].kind = "ok"

\* ---------------------------------------------------------------- C9
\* the last observation of the batch with the key of observation i
LastWithKey(batch, i) ==
  batch[CHOOSE n \in DOMAIN batch :
          /\ DeviceKey(batch[n]) = DeviceKey(batch[i])
          /\ \A m \in DOMAIN batch : DeviceKey(batch[m]) = DeviceKey(batch[i]) => m <= n]

\* C9: a batch with several observations of one (MAC, host) key is reconciled
\* without error, and the key's KnownDevice holds the interface and VLAN of
\* the last of them.
C9_LastOneWins ==
  \A c \in Calls :
    /\ calls[c].pc \in {"catch", "catchReset"} => calls[c].error # "UniqueConstraint"
    /\ calls[c].pc = "retention" =>
         \A i \in DOMAIN calls[c].allDevices :
           LET last == LastWithKey(calls[c].allDevices, i)
               k    == TableKey(calls[c].jobId, last)
           IN  /\ k \in DOMAIN known_devices
               /\ known_devices[k].interface_name = last.interface_name
               /\ known_devices[k].vlan_id = last.vlan_id

\* ---------------------------------------------------------------- C10
\* C10: reconciliation and the finalization of the JobRun are one atomic unit:
\* a run that began to reconcile and did not end completed has left the job's
\* known devices as they were before it, and no run ends with its JobRun
\* still running.
C10_ReconciliationAtomic ==
  \A c \in Calls :
    (calls[c].pc = "finally" /\ calls[c].devIdx >= 1) =>
      /\ job_runs[calls[c].runId].status # "running"
      /\ job_runs[calls[c].runId].status # "completed"
           => LoadKnownDevices(calls[c].jobId) = calls[c].kdBefore

\* ---------------------------------------------------------------- C11
\* C11: a run that created its JobRun and ended in failure has left that JobRun
\* with status failed and a non-empty error message; in particular no JobRun
\* is still running once its runJob has ended, also when a storage statement
\* of the run itself threw.
C11_FailureRecorded ==
  \A c \in Calls :
    (calls[c].pc = "done" /\ calls[c].runId # 0 /\ calls[c].outcome # "returned") =>
      /\ job_runs[calls[c].runId].status = "failed"
      /\ job_runs[calls[c].runId].error_message # ""

\* ---------------------------------------------------------------- C12
\* C12: runJob raises to its caller only AlreadyRunning, NotFound, NoHosts and
\* AllHostsFailed; every other failure of a run is reported through the JobRun
\* and the call returns.
C12_OnlyContractErrors ==
  \A c \in Calls :
    calls[c].pc = "done" =>
      calls[c].outcome \in {"returned", "AlreadyRunning", "NotFound", "NoHosts", "AllHostsFailed"}

\* ---------------------------------------------------------------- C13
\* the run of call c is reconciling its batch, or has just reconciled it
Reconciling(c) == calls[c].pc \in {"process", "retention"}

\* the observations of the batch that the loop of _processDevices has merged
Processed(c) == { i \in DOMAIN calls[c].allDevices : i < calls[c].devIdx }

\* observation i of the batch has a key that was not in the inventory before
IsNewKey(c, i) == DeviceKey(calls[c].allDevices[i]) \notin DOMAIN calls[c].kdBefore

\* C13: for each merged observation whose (MAC, host) key had no KnownDevice,
\* the inventory holds one KnownDevice of that key: active, with the
\* observation's interface and VLAN, first-seen = last-seen = now and
\* whitelisted = (MAC is in the whitelist); newDevices is the number of
\* KnownDevices the reconciliation created.
C13_NewDeviceCreated ==
  \A c \in Calls :
    Reconciling(c) =>
      /\ \A i \in Processed(c) :
           IsNewKey(c, i) =>
             LET dev == calls[c].allDevices[i]
                 k   == TableKey(calls[c].jobId, dev)
             IN  /\ k \in DOMAIN known_devices
                 /\ known_devices[k] =
                      DeviceRow(dev.interface_name, dev.vlan_id,
                                dev.mac_address \in job_whitelist[calls[c].jobId],
                                now, now, "active")
      /\ calls[c].newDevices =
           Cardinality(DOMAIN LoadKnownDevices(calls[c].jobId) \ DOMAIN calls[c].kdBefore)

\* a batch was reconciled that brought a whitelisted and an unauthorized new device
C13_Witness ==
  \E c \in Calls :
    /\ calls[c].pc = "retention"
    /\ calls[c].newDevices = 2
    /\ \E i, n \in Processed(c) :
         /\ IsNewKey(c, i) /\ IsNewKey(c, n)
         /\ known_devices[TableKey(calls[c].jobId, calls[c].allDevices[i])].whitelisted
         /\ ~known_devices[TableKey(calls[c].jobId, calls[c].allDevices[n])].whitelisted

\* ---------------------------------------------------------------- C14
\* C14: for each merged observation whose key had a KnownDevice, that
\* KnownDevice holds the observation's interface and VLAN, last-seen = now and
\* status active (also when it was inactive), its other attributes are as
\* before, and the observation is not counted as a new device.
C14_ExistingDeviceUpdated ==
  \A c \in Calls :
    Reconciling(c) =>
      /\ \A i \in Processed(c) :
           ~IsNewKey(c, i) =>
             LET dev == calls[c].allDevices[i]
                 k   == TableKey(calls[c].jobId, dev)
             IN  /\ k \in DOMAIN known_devices
                 /\ known_devices[k] =
                      [calls[c].kdBefore[DeviceKey(dev)] EXCEPT
                         !.interface_name = dev.interface_name,
                         !.vlan_id = dev.vlan_id,
                         !.last_seen = now,
                         !.status = "active"]
      /\ calls[c].newDevices = Cardinality({ i \in Processed(c) : IsNewKey(c, i) })

\* a device that was inactive, on another port, has been observed again
C14_Witness ==
  \E c \in Calls :
    /\ calls[c].pc = "retention"
    /\ \E i \in Processed(c) :
         /\ ~IsNewKey(c, i)
         /\ calls[c].kdBefore[DeviceKey(calls[c].allDevices[i])].status = "inactive"
         /\ calls[c].kdBefore[DeviceKey(calls[c].allDevices[i])].interface_name
              # calls[c].allDevices[i].interface_name
         /\ calls[c].newDevices = 0

\* ---------------------------------------------------------------- C15
\* the (MAC, host) keys of the batch of the run of call c
BatchKeys(c) == { DeviceKey(calls[c].allDevices[i]) : i \in DOMAIN calls[c].allDevices }

\* C15: once the batch is merged and the unseen devices are marked, every
\* KnownDevice of the job that existed before and whose key is not in the batch
\* is inactive with its other attributes as before, no KnownDevice whose key is
\* in the batch is inactive, and the reconciliation has deleted no KnownDevice.
C15_UnseenMarkedInactive ==
  \A c \in Calls :
    /\ Reconciling(c) =>
         \A key \in DOMAIN calls[c].kdBefore :
           << calls[c].jobId, key[1], key[2] >> \in DOMAIN known_devices
    /\ calls[c].pc = "retention" =>
         /\ \A key \in (DOMAIN calls[c].kdBefore) \ BatchKeys(c) :
              known_devices[<< calls[c].jobId, key[1], key[2] >>] =
                [calls[c].kdBefore[key] EXCEPT !.status = "inactive"]
         /\ \A key \in BatchKeys(c) :
              known_devices[<< calls[c].jobId, key[1], key[2] >>].status = "active"

\* a device that was active before was not in the batch and is now inactive,
\* while a device of the batch is active
C15_Witness ==
  \E c \in Calls :
    /\ calls[c].pc = "retention"
    /\ BatchKeys(c) # {}
    /\ \E key \in (DOMAIN calls[c].kdBefore) \ BatchKeys(c) :
         /\ calls[c].kdBefore[key].status = "active"
         /\ known_devices[<< calls[c].jobId, key[1], key[2] >>].status = "inactive"

\* ---------------------------------------------------------------- C16
\* C16: for every batch, batches with duplicate keys included, the Reconciler
\* returns, and the devicesFound it returns is the number of distinct
\* (MAC, host) keys of the batch.
C16_DevicesFoundDistinct ==
  \A c \in Calls :
    /\ (calls[c].pc = "catch" /\ calls[c].devIdx >= 1) => calls[c].error # "UniqueConstraint"
    /\ calls[c].pc = "updateRun" =>
         devicesFound(calls[c].allDevices) = Cardinality(BatchKeys(c))

\* ---------------------------------------------------------------- C17
\* the index of the first observation whose key an earlier observation of the
\* batch has, or the length of the batch plus one
FirstDup(batch) ==
  LET dups == { i \in DOMAIN batch :
                  \E m \in DOMAIN batch : m < i /\ DeviceKey(batch[m]) = DeviceKey(batch[i]) }
  IN  IF dups = {} THEN Len(batch) + 1
      ELSE CHOOSE i \in dups : \A n \in dups : i <= n

\* The inventory the pass of call c starts from is the one a pass of the same
\* batch leaves: the keys of the batch are active with the values observed and
\* every other device of the job is inactive.  (A pass of a batch with a
\* duplicate key stops at the duplicate, before it marks anything inactive.)
UpToDate(c) ==
  LET batch == calls[c].allDevices
      d     == FirstDup(batch)
  IN  /\ \A i \in 1..(d - 1) :
           /\ DeviceKey(batch[i]) \in DOMAIN calls[c].kdBefore
           /\ calls[c].kdBefore[DeviceKey(batch[i])].status = "active"
           /\ calls[c].kdBefore[DeviceKey(batch[i])].interface_name = batch[i].interface_name
           /\ calls[c].kdBefore[DeviceKey(batch[i])].vlan_id = batch[i].vlan_id
      /\ d > Len(batch) =>
           \A key \in (DOMAIN calls[c].kdBefore) \ BatchKeys(c) :
             calls[c].kdBefore[key].status = "inactive"

C17_SecondPassKeepsRows ==
  \A c \in Calls :
    (Reconciling(c) /\ UpToDate(c)) =>
      /\ calls[c].newDevices = 0
      /\ DOMAIN LoadKnownDevices(calls[c].jobId) = DOMAIN calls[c].kdBefore
      /\ \A key \in DOMAIN calls[c].kdBefore :
           [known_devices[<< calls[c].jobId, key[1], key[2] >>] EXCEPT !.last_seen = 0]
             = [calls[c].kdBefore[key] EXCEPT !.last_seen = 0]

C17_SecondPassSilent ==
  \A c \in Calls :
    (calls[c].pc = "process" /\ UpToDate(c)) => notifications' = notifications

\* C17: reconciling a batch against the inventory that a pass of the same batch
\* left counts no new device, writes no notification, and leaves every
\* KnownDevice of the job as it was except for its last-seen timestamp.
C17_Idempotence == [](C17_SecondPassKeepsRows) /\ [][C17_SecondPassSilent]_vars

\* a second pass of a batch, a day later: the rows are as before but for last-seen
C17_Witness ==
  \E c \in Calls :
    /\ calls[c].pc = "retention"
    /\ UpToDate(c)
    /\ Cardinality(BatchKeys(c)) = 2
    /\ \E key \in BatchKeys(c) :
         known_devices[<< calls[c].jobId, key[1], key[2] >>].last_seen
           > calls[c].kdBefore[key].last_seen

\* ---------------------------------------------------------------- C18
\* C18: a reconciliation appends one DeviceHistoryEntry for each observation of
\* its batch, duplicates included: the entries of the observations merged so
\* far are the last ones of device_history, in batch order, and a
\* reconciliation that is over has merged every observation of its batch.
C18_OneEntryPerObservation ==
  \A c \in Calls :
    (InFlight(c) /\ calls[c].devIdx >= 1) =>
      /\ Len(device_history) >= calls[c].devIdx - 1
      /\ \A i \in Processed(c) :
           device_history[Len(device_history) - (calls[c].devIdx - 1) + i]
             = HistoryRow(calls[c], calls[c].allDevices[i])
      /\ calls[c].pc # "process" => calls[c].devIdx = Len(calls[c].allDevices) + 1

\* ---------------------------------------------------------------- C19
\* the step merges the next observation of the batch of call c
MergeStep(c) ==
  /\ calls[c].pc = "process"
  /\ calls[c].devIdx <= Len(calls[c].allDevices)
  /\ calls'[c].devIdx = calls[c].devIdx + 1

\* the step only appends to notifications
NotificationsAppended ==
  /\ Len(notifications') >= Len(notifications)
  /\ SubSeq(notifications', 1, Len(notifications)) = notifications

\* the notifications the step appends
Added == SubSeq(notifications', Len(notifications) + 1, Len(notifications'))

\* the number of warning notifications among those the step appends
WarningsAdded == Cardinality({ n \in DOMAIN Added : Added[n].type = "warning" })

C19_NewDeviceStep ==
  \A c \in Calls :
    (/\ MergeStep(c)
     /\ DeviceKey(calls[c].allDevices[calls[c].devIdx]) \notin DOMAIN calls[c].knownDevices
     /\ calls[c].job.notifications_enabled) =>
      LET dev == calls[c].allDevices[calls[c].devIdx]
          wl  == dev.mac_address \in job_whitelist[calls[c].jobId]
      IN  /\ NotificationsAppended
          /\ IF wl /\ calls[c].job.notify_new_macs
             THEN /\ Len(Added) = 1
                  /\ Added[1].type = "information"
                  /\ Added[1].message = << "new-authorized", dev.mac_address, dev.host_name >>
             ELSE IF ~wl /\ calls[c].job.notify_unauthorized_macs
             THEN /\ Len(Added) = 1
                  /\ Added[1].type = "warning"
                  /\ Added[1].message = << "unauthorized", dev.mac_address, dev.host_name >>
             ELSE Len(Added) = 0

C19_WarningsCounted ==
  \A c \in Calls :
    /\ calls[c].pc = "process" =>
         /\ NotificationsAppended
         /\ calls'[c].warnings = calls[c].warnings + WarningsAdded
    /\ calls[c].pc = "updateRun" /\ calls'[c].pc = "resetJob" =>
         job_runs'[calls[c].runId].warnings = calls[c].warnings

\* C19: with notifications_enabled, a new device gets one informational
\* notification iff its MAC is whitelisted and notify_new_macs is on, one
\* warning notification iff its MAC is not whitelisted and
\* notify_unauthorized_macs is on, and none otherwise; the warning counter of
\* the run is the number of warning notifications the run wrote.
C19_NewDeviceNotifications == [][C19_NewDeviceStep /\ C19_WarningsCounted]_vars

\* a run found an authorized and an unauthorized new device: one notification of
\* each type, one warning counted
C19_Witness ==
  \E c \in Calls :
    /\ calls[c].pc = "retention"
    /\ calls[c].newDevices = 2
    /\ calls[c].warnings = 1
    /\ Len(notifications) = 2
    /\ notifications[1].type = "information"
    /\ notifications[2].type = "warning"

\* ---------------------------------------------------------------- C20
\* the step merges an observation of a device that was known; `cond` is the
\* condition under which the interface-moved notification is expected
MovedStep(c, cond) ==
  LET dev    == calls[c].allDevices[calls[c].devIdx]
      stored == known_devices[TableKey(calls[c].jobId, dev)]
  IN  /\ NotificationsAppended
      /\ IF stored.interface_name # dev.interface_name /\ cond
         THEN /\ Len(Added) = 1
              /\ Added[1].type = "information"
              /\ Added[1].message = << "moved", dev.mac_address, stored.interface_name,
                                       dev.interface_name, dev.host_name >>
         ELSE Len(Added) = 0

\* the step merges an observation whose key the run found in the inventory
MergesKnown(c) ==
  /\ MergeStep(c)
  /\ DeviceKey(calls[c].allDevices[calls[c].devIdx]) \in DOMAIN calls[c].knownDevices

\* C20 as stated: an observation of an existing KnownDevice writes one
\* informational interface-moved notification naming the old and the new
\* interface iff the stored interface differs from the observed one and
\* notify_ip_changes is on.
C20_MovedIffToggle ==
  [][\A c \in Calls : MergesKnown(c) => MovedStep(c, calls[c].job.notify_ip_changes)]_vars

\* C20 amended: ... iff the stored interface differs from the observed one and
\* both notifications_enabled and notify_ip_changes are on; an observation
\* with an unchanged interface writes no notification.
C20_MovedIffEnabledAndToggle ==
  [][\A c \in Calls :
       MergesKnown(c) =>
         MovedStep(c, calls[c].job.notifications_enabled /\ calls[c].job.notify_ip_changes)]_vars

\* a known device was observed on another port: the notification names both
\* ports and the KnownDevice is on the new one
C20_Witness ==
  \E c \in Calls :
    /\ Reconciling(c)
    /\ calls[c].jobId = "j1"
    /\ notifications # << >>
    /\ LET last == notifications[Len(notifications)] IN
         /\ last.message[1] = "moved"
         /\ last.type = "information"
         /\ last.message[3] # last.message[4]
         /\ known_devices[<< last.job_id, last.mac_address, last.host_name >>].interface_name
              = last.message[4]

\* ---------------------------------------------------------------- C21
\* the run of call c is of a job whose notifications_enabled is off
Muted(c) == InFlight(c) /\ ~calls[c].job.notifications_enabled

C21_NoWarningCounted ==
  \A c \in Calls :
    Muted(c) =>
      /\ calls[c].warnings = 0
      /\ calls[c].runId # 0 => job_runs[calls[c].runId].warnings = 0

C21_NothingWritten ==
  \A c \in Calls :
    (Muted(c) /\ calls'[c] # calls[c]) => notifications' = notifications

\* C21: a run of a job whose notifications_enabled is off writes no
\* notification and counts no warning, whatever the other toggles, the
\* whitelist and the batch are.
C21_MasterFlagOff == [](C21_NoWarningCounted) /\ [][C21_NothingWritten]_vars

\* a muted run found an authorized and an unauthorized new device, and a known
\* device on another port
C21_Witness ==
  \E c \in Calls :
    /\ Muted(c)
    /\ calls[c].pc = "resetJob"
    /\ calls[c].newDevices = 1
    /\ \E i \in Processed(c) :
         /\ ~IsNewKey(c, i)
         /\ calls[c].kdBefore[DeviceKey(calls[c].allDevices[i])].interface_name
              # calls[c].allDevices[i].interface_name
    /\ \E i \in Processed(c) :
         IsNewKey(c, i) /\ calls[c].allDevices[i].mac_address \notin calls[c].whitelist
    /\ notifications = << >>

\* ---------------------------------------------------------------- C22
\* the step is the retention of the run of call c
RetentionStep(c) == calls[c].pc = "retention" /\ calls'[c].pc = "updateRun"

\* the KnownDevices the step deletes
Deleted == (DOMAIN known_devices) \ (DOMAIN known_devices')

\* the step changes no KnownDevice that it keeps, and adds none
OnlyDeletes ==
  /\ (DOMAIN known_devices') \subseteq (DOMAIN known_devices)
  /\ \A k \in DOMAIN known_devices' : known_devices'[k] = known_devices[k]

C22_Step ==
  \A c \in Calls :
    RetentionStep(c) =>
      /\ OnlyDeletes
      /\ \A k \in Deleted : k[1] = calls[c].jobId /\ known_devices[k].status = "inactive"
      /\ calls[c].job.retention_policy = "forever" => Deleted = {}
      /\ UNCHANGED << device_history, notifications >>

\* C22: under every policy retention deletes no active KnownDevice and no
\* KnownDevice of another job, and changes nothing else; under policy forever
\* it deletes nothing.
C22_RetentionScope == [][C22_Step]_vars

\* retention deleted a device of the job, kept an active one, and left the
\* inactive device of another job alone
C22_Witness ==
  \E c \in Calls :
    /\ calls[c].pc = "updateRun"
    /\ \E key \in DOMAIN calls[c].kdBefore :
         << calls[c].jobId, key[1], key[2] >> \notin DOMAIN known_devices
    /\ \E k \in DOMAIN known_devices :
         k[1] = calls[c].jobId /\ known_devices[k].status = "active"
    /\ \E k \in DOMAIN known_devices :
         k[1] # calls[c].jobId /\ known_devices[k].status = "inactive"

\* ---------------------------------------------------------------- C23
\* C23: under policy remove, once retention has run the job has no inactive
\* KnownDevice, and every device that was known and that the run did not
\* observe is gone from the inventory in that same run.
C23_RemoveImmediately ==
  \A c \in Calls :
    (calls[c].pc \in {"updateRun", "resetJob"} /\ calls[c].job.retention_policy = "remove") =>
      /\ \A k \in DOMAIN known_devices :
           k[1] = calls[c].jobId => known_devices[k].status # "inactive"
      /\ \A key \in (DOMAIN calls[c].kdBefore) \ BatchKeys(c) :
           << calls[c].jobId, key[1], key[2] >> \notin DOMAIN known_devices

\* a day after it was seen, a device was not observed and the run deleted it
C23_Witness ==
  \E c \in Calls :
    /\ calls[c].pc = "resetJob"
    /\ calls[c].job.retention_policy = "remove"
    /\ BatchKeys(c) # {}
    /\ \E key \in (DOMAIN calls[c].kdBefore) \ BatchKeys(c) :
         /\ calls[c].kdBefore[key].status = "active"
         /\ calls[c].kdBefore[key].last_seen = now - 1

\* ---------------------------------------------------------------- C24
C24_Step ==
  \A c \in Calls :
    (RetentionStep(c) /\ calls[c].job.retention_policy = "days") =>
      /\ OnlyDeletes
      /\ \A k \in DOMAIN known_devices :
           k \in Deleted <=>
             /\ k[1] = calls[c].jobId
             /\ known_devices[k].status = "inactive"
             /\ now - known_devices[k].last_seen > calls[c].job.retention_days

\* C24: under policy days(N) retention deletes exactly the inactive
\* KnownDevices of the job whose last-seen is more than N days before now; an
\* inactive KnownDevice seen N days ago or less is kept.
C24_DaysPolicy == [][C24_Step]_vars

\* N = 1: retention has deleted a device last seen 2 days ago
C24_Witness ==
  \E c \in Calls :
    /\ calls[c].pc = "updateRun"
    /\ calls[c].job.retention_policy = "days"
    /\ calls[c].job.retention_days = 1
    /\ \E key \in DOMAIN calls[c].kdBefore :
         /\ calls[c].kdBefore[key].last_seen = now - 2
         /\ << calls[c].jobId, key[1], key[2] >> \notin DOMAIN known_devices

\* N = 1: retention has kept an inactive device last seen 1 day ago
C24_WitnessKept ==
  \E c \in Calls :
    /\ calls[c].pc = "updateRun"
    /\ calls[c].job.retention_policy = "days"
    /\ \E key \in DOMAIN calls[c].kdBefore :
         /\ calls[c].kdBefore[key].last_seen = now - 1
         /\ << calls[c].jobId, key[1], key[2] >> \in DOMAIN known_devices
         /\ known_devices[<< calls[c].jobId, key[1], key[2] >>].status = "inactive"

\* ---------------------------------------------------------------- C25
\* the whitelist a run works with is the one of the table when runJob was
\* invoked, and it stays the same for as long as the run is in flight
C25_SnapshotAtInvocation ==
  \A c \in Calls :
    /\ Invokes(c) /\ InFlight(c)' =>
         calls'[c].whitelist = job_whitelist[calls'[c].jobId]
    /\ InFlight(c) /\ InFlight(c)' =>
         calls'[c].whitelist = calls[c].whitelist

\* the flag of a device the run creates and the type of the notification the
\* run writes for it follow the snapshot
C25_SnapshotDecides ==
  \A c \in Calls :
    (/\ MergeStep(c)
     /\ DeviceKey(calls[c].allDevices[calls[c].devIdx]) \notin DOMAIN calls[c].knownDevices) =>
      LET dev == calls[c].allDevices[calls[c].devIdx]
          k   == TableKey(calls[c].jobId, dev)
          wl  == dev.mac_address \in calls[c].whitelist
      IN  /\ k \in DOMAIN known_devices'
          /\ known_devices'[k].whitelisted = wl
          /\ NotificationsAppended
          /\ \A n \in DOMAIN Added :
               Added[n].type = (IF wl THEN "information" ELSE "warning")

\* C25: the whitelist used by a run is the snapshot read when the run is
\* invoked; a change of the job's whitelist made while the run is in flight
\* changes neither the whitelisted flag of the KnownDevices the run creates nor
\* the kind of notification the run produces.
C25_WhitelistSnapshot == [][C25_SnapshotAtInvocation /\ C25_SnapshotDecides]_vars

\* the whitelist of the job was replaced during the host scans by one without
\* m1; the run then created the device m1 as whitelisted and announced it with
\* an informational notification
C25_Witness ==
  \E c \in Calls :
    /\ Reconciling(c)
    /\ calls[c].whitelist # job_whitelist[calls[c].jobId]
    /\ \E i \in Processed(c) :
         LET dev == calls[c].allDevices[i]
             k   == TableKey(calls[c].jobId, dev)
         IN  /\ IsNewKey(c, i)
             /\ dev.mac_address \notin job_whitelist[calls[c].jobId]
             /\ k \in DOMAIN known_devices
             /\ known_devices[k].whitelisted
             /\ \E n \in DOMAIN notifications :
                  /\ notifications[n].job_id = calls[c].jobId
                  /\ notifications[n].mac_address = dev.mac_address
                  /\ notifications[n].type = "information"

\* ---------------------------------------------------------------- C26
\* the step is a step of an invocation of runJob for job j
StepOfJob(j) == \E c \in Calls : calls'[c] # calls[c] /\ calls'[c].jobId = j

\* what the tables and the registry hold for job j
DevicesOf(kd, j) == [k \in { k \in DOMAIN kd : k[1] = j } |-> kd[k]]

RunsOf(runs, j) == [r \in { r \in DOMAIN runs : runs[r].job_id = j } |-> runs[r]]

StatusOf(rows, j) == IF j \in DOMAIN rows THEN rows[j].status ELSE "none"

EntryOf(registry, j) == IF j \in DOMAIN registry THEN registry[j].runId ELSE 0

\* only the steps of a run of job j touch what belongs to job j
C26_OwnRowsOnly ==
  \A j \in JobIds :
    ~StepOfJob(j) =>
      /\ DevicesOf(known_devices', j) = DevicesOf(known_devices, j)
      /\ RunsOf(job_runs', j) = RunsOf(job_runs, j)
      /\ StatusOf(jobs', j) = StatusOf(jobs, j)
      /\ EntryOf(runningJobs', j) = EntryOf(runningJobs, j)

\* runJob of an active job with an enabled host and no run of its own in flight
\* passes its preconditions, whatever the runs of other jobs are doing
C26_NotRejected ==
  \A c \in Calls :
    Invokes(c) =>
      LET j == calls'[c].jobId IN
        (/\ ~RunInFlight(j)
         /\ j \in DOMAIN jobs
         /\ jobs[j].status = "active"
         /\ Len(EnabledHosts(j)) > 0) => calls'[c].passed

\* C26: runs of different jobs may be in flight together; under every
\* interleaving a run of one job never creates, modifies or deletes the
\* KnownDevices, JobRuns, Job status or registry entry of another job, and an
\* in-flight run of job A never causes runJob of job B to be rejected.
C26_JobsIndependent == [][C26_OwnRowsOnly /\ C26_NotRejected]_vars

\* runs of j1 and j2 are in flight together: the run of j1 was invoked while the
\* run of j2 awaited its host, and it has written a KnownDevice of its own
C26_Witness ==
  \E c, d \in Calls :
    /\ calls[c].jobId = "j2" /\ calls[c].pc = "await"
    /\ calls[d].jobId = "j1" /\ Reconciling(d) /\ calls[d].devIdx > 1
    /\ DOMAIN runningJobs = {"j1", "j2"}
    /\ DevicesOf(known_devices, "j1") # EmptyMap
    /\ DevicesOf(known_devices, "j2") # EmptyMap

\* ---------------------------------------------------------------- C27
\* the step is the iteration of the parser's loop over the line `parts`
ParsesLine(parts) ==
  /\ scan.pc = "lines"
  /\ scan'.pc = "lines"
  /\ scan'.line = scan.line + 1
  /\ scan.line <= Len(output)
  /\ parts = output[scan.line]

\* the step emits an observation
Emits == Len(scan'.devices) > Len(scan.devices)

\* the token is an integer numeral: digits, after an optional sign, and nothing else
IsInteger(token) ==
  LET body == IF Len(token) > 0 /\ token[1] \in {"+", "-"} THEN Tail(token) ELSE token
  IN  Len(body) > 0 /\ \A i \in DOMAIN body : Has(Digits, body[i])

\* the token is six two-hex-digit groups separated by colons or hyphens
SixGroups(token) ==
  /\ Len(token) = 17
  /\ \A i \in 1..17 :
       IF i % 3 = 0 THEN token[i] \in {":", "-"}
       ELSE Has(Digits, token[i]) \/ Has(SubSeq(LowerCase, 1, 6), token[i])
            \/ Has(SubSeq(UpperCase, 1, 6), token[i])

\* C27: parse emits an observation for a line only if the line has at least 4
\* tokens, its VLAN token is an integer and its MAC token is six colon- or
\* hyphen-separated two-hex-digit groups; a line whose VLAN token is not an
\* integer (digits followed by other characters, for example) or whose MAC
\* token fails the pattern never yields an observation.
C27_OnlyWellFormedLines ==
  [][\A parts \in Lines \cup { << >> } :
       ParsesLine(parts) /\ Emits =>
         /\ Len(parts) >= 4
         /\ IsInteger(parts[1])
         /\ SixGroups(parts[2])]_vars

\* ---------------------------------------------------------------- C28
\* the address is written in lower case with colons between its groups
LowerColon(mac) ==
  \A i \in DOMAIN mac :
    IF i % 3 = 0 THEN mac[i] = ":" ELSE ~Has(UpperCase, mac[i])

\* C28: every MAC emitted by parse is in lower case with colon separators, so
\* an address written in upper case or with hyphens yields the same MAC, and
\* with it the same (MAC, host) key and the same whitelist membership, as its
\* lowercase colon form.
C28_NormalizedMacs ==
  \A i \in DOMAIN scan.devices : LowerColon(scan.devices[i].mac_address)

\* ---------------------------------------------------------------- C29
\* C29: a malformed line is skipped and never makes the parse fail; an empty
\* text is surfaced as a parse failure, which the orchestrator takes as the
\* failure of that host only.
C29_EmptyTextFails ==
  scan.pc = "returned" => (scan.success <=> output # EmptyText)

\* ---------------------------------------------------------------- C30
\* invocation c is over: its JobRun is completed or failed, its job is active
\* again and the registry has no entry of the job
Settled(c) ==
  /\ calls[c].pc = "done"
  /\ calls[c].passed
  /\ calls[c].runId \in DOMAIN job_runs
  /\ job_runs[calls[c].runId].status \in {"completed", "failed"}
  /\ jobs[calls[c].jobId].status = "active"
  /\ ~isJobRunning(calls[c].jobId)

\* C30: a run that has passed its preconditions always ends, provided every
\* host query resolves: its JobRun reaches completed or failed, the Job status
\* returns to active and the registry entry is removed, with no abort from
\* outside.
C30_RunEnds ==
  /\ []<>(\A c \in Calls : ~InFlight(c))
  /\ [][\A c \in Calls : InFlight(c) /\ ~InFlight(c)' => Settled(c)']_vars

\* a run that awaited both of its hosts, one of them failing, has ended completed
C30_Witness ==
  \E c \in Calls :
    /\ Settled(c)
    /\ job_runs[calls[c].runId].status = "completed"
    /\ job_runs[calls[c].runId].hosts_scanned = 2
    /\ \E i \in DOMAIN job_runs[calls[c].runId].debug_info :
         job_runs[calls[c].runId].debug_info[i].kind = "failed"

\* ---------------------------------------------------------------- C31
\* the step of call c starts the attempt of a host
ContactsHost(c) ==
  /\ calls[c].pc = "scanLoop"
  /\ calls[c].hostIdx <= Len(calls[c].sshHosts)
  /\ calls'[c] # calls[c]

\* every host attempt of the run of call c has resolved
AllResolved(c) == Len(calls[c].hostResults) = Len(calls[c].sshHosts)

C31_RunningBeforeHosts ==
  \A c \in Calls :
    ContactsHost(c) =>
      /\ calls[c].runId \in DOMAIN job_runs
      /\ job_runs[calls[c].runId].status = "running"
      /\ job_runs[calls[c].runId].job_id = calls[c].jobId
      /\ jobs[calls[c].jobId].status = "running"

C31_NoEarlyWrite ==
  \A c \in Calls :
    (/\ InFlight(c)
     /\ calls'[c] # calls[c]
     /\ << known_devices, device_history, notifications >>'
          # << known_devices, device_history, notifications >>) =>
      /\ AllResolved(c)
      /\ calls[c].pc \in {"process", "retention"}

C31_BatchOrder ==
  \A c \in Calls :
    Reconciling(c) =>
      /\ AllResolved(c)
      /\ calls[c].allDevices = OkDevices(calls[c].hostResults)
      /\ \A i \in DOMAIN calls[c].hostResults :
           \A n \in DOMAIN calls[c].hostResults[i].devices :
             calls[c].hostResults[i].devices[n].host_name = calls[c].sshHosts[i].host

\* C31: the JobRun is created in status running and the Job is marked running
\* before the first host is contacted; the Reconciler writes nothing to the
\* inventory until every host attempt of the run has resolved; the batch it
\* then receives is in host enumeration order and, within a host, in line order.
C31_ScanThenReconcile ==
  /\ [](C31_BatchOrder)
  /\ [][C31_RunningBeforeHosts /\ C31_NoEarlyWrite]_vars

\* a run reconciles a batch with the observations of its first host before
\* those of its second host
C31_Witness ==
  \E c \in Calls :
    /\ Reconciling(c)
    /\ calls[c].devIdx > 1
    /\ Len(calls[c].allDevices) = 2
    /\ Len(calls[c].sshHosts) = 2
    /\ calls[c].allDevices[1].host_name = calls[c].sshHosts[1].host
    /\ calls[c].allDevices[2].host_name = calls[c].sshHosts[2].host

\* ---------------------------------------------------------------- C32
\* the JobRun of call c has just been finalized and runJob has not ended yet
Finalized(c) ==
  /\ calls[c].pc \in {"resetJob", "catchReset", "finally"}
  /\ calls[c].runId \in DOMAIN job_runs
  /\ job_runs[calls[c].runId].status \in {"completed", "failed"}

\* the diagnostics have a line about the failure of host `name`
HasFailureLine(lines, name) ==
  \E n \in DOMAIN lines : lines[n].host = name /\ lines[n].kind \in {"failed", "error"}

\* C32: a finalized JobRun, completed or failed, holds in its diagnostics a line
\* for each host that failed in the run, and a completed JobRun records
\* hosts scanned = the number of enabled hosts, the failed ones included.
C32_FailedHostsInDiagnostics ==
  \A c \in Calls :
    Finalized(c) =>
      LET run == job_runs[calls[c].runId] IN
        /\ \A i \in DOMAIN calls[c].hostResults :
             calls[c].hostResults[i].kind # "ok" =>
               HasFailureLine(run.debug_info, calls[c].sshHosts[i].name)
        /\ run.status = "completed" =>
             run.hosts_scanned = Len(EnabledHosts(calls[c].jobId))

\* ---------------------------------------------------------------- C33
\* the keys of the devices known before the run of call c whose host failed in
\* that run
OfFailedHosts(c) ==
  { key \in DOMAIN calls[c].kdBefore :
      \E i \in DOMAIN calls[c].hostResults :
        /\ calls[c].hostResults[i].kind # "ok"
        /\ calls[c].sshHosts[i].host = key[2] }

\* C33: in a run where some hosts succeeded and others failed, every device
\* known before whose host failed is handled as a device that was not seen: it
\* is inactive after the marking, and once retention has run it is inactive
\* with its other attributes unchanged, or deleted where the policy deletes it.
C33_FailedHostDevicesUnseen ==
  \A c \in Calls :
    \A key \in (IF calls[c].pc \in {"retention", "updateRun"}
                 THEN OfFailedHosts(c) ELSE {}) :
      LET k   == << calls[c].jobId, key[1], key[2] >>
          row == [calls[c].kdBefore[key] EXCEPT !.status = "inactive"]
      IN  /\ calls[c].pc = "retention" =>
               k \in DOMAIN known_devices /\ known_devices[k] = row
          /\ calls[c].pc = "updateRun" =>
               IF calls[c].job.retention_policy = "remove"
                  \/ (calls[c].job.retention_policy = "days"
                      /\ row.last_seen < now - calls[c].job.retention_days)
               THEN k \notin DOMAIN known_devices
               ELSE k \in DOMAIN known_devices /\ known_devices[k] = row

\* the second host of the job failed in a run that completes; the device it
\* reported in an earlier run was active and is now inactive
C33_Witness ==
  \E c \in Calls :
    /\ calls[c].pc = "updateRun"
    /\ calls[c].successfulHosts >= 1
    /\ \E key \in OfFailedHosts(c) :
         /\ calls[c].kdBefore[key].status = "active"
         /\ << calls[c].jobId, key[1], key[2] >> \in DOMAIN known_devices
         /\ known_devices[<< calls[c].jobId, key[1], key[2] >>].status = "inactive"

\* ---------------------------------------------------------------- C34
\* C34: whenever no run of a job is in flight, every KnownDevice of the job has
\* whitelisted = (its MAC is in the whitelist the job has now), however the
\* updates of the job's whitelist and the runs of the job interleave.
C34_FlagsMatchWhitelist ==
  \A j \in DOMAIN jobs :
    ~RunInFlight(j) =>
      \A k \in DOMAIN known_devices :
        k[1] = j => known_devices[k].whitelisted = (k[2] \in job_whitelist[j])

\* ---------------------------------------------------------------- C35
\* the step merges an observation of a device the run found in the inventory
MergesExisting(c) ==
  /\ MergeStep(c)
  /\ DeviceKey(calls[c].allDevices[calls[c].devIdx]) \in DOMAIN calls[c].knownDevices

C35_Step ==
  \A c \in Calls :
    MergesExisting(c) =>
      LET k == TableKey(calls[c].jobId, calls[c].allDevices[calls[c].devIdx]) IN
        /\ k \in DOMAIN known_devices
        /\ DOMAIN known_devices' = DOMAIN known_devices
        /\ known_devices'[k].first_seen = known_devices[k].first_seen
        /\ known_devices'[k].whitelisted = known_devices[k].whitelisted
        /\ \A x \in DOMAIN known_devices \ {k} : known_devices'[x] = known_devices[x]

\* C35: reconciling an observation of an existing KnownDevice never changes the
\* device's first-seen timestamp or its whitelisted flag, also when the
\* whitelist of the run disagrees with the stored flag; only interface, VLAN,
\* last-seen and status may change, and no other device is touched.
C35_FrameOfUpdate == [][C35_Step]_vars

\* a device stored as whitelisted was observed by a run whose whitelist does
\* not hold its MAC, a day after it was first seen: flag and first-seen are as
\* they were
C35_Witness ==
  \E c \in Calls :
    /\ Reconciling(c)
    /\ \E i \in Processed(c) :
         LET dev == calls[c].allDevices[i]
             k   == TableKey(calls[c].jobId, dev)
         IN  /\ ~IsNewKey(c, i)
             /\ calls[c].kdBefore[DeviceKey(dev)].whitelisted
             /\ dev.mac_address \notin calls[c].whitelist
             /\ k \in DOMAIN known_devices
             /\ known_devices[k].whitelisted
             /\ known_devices[k].first_seen < now
             /\ known_devices[k].last_seen = now

\* ---------------------------------------------------------------- C36
\* the JobRuns of job j that are in status running
RunningRuns(j) ==
  { r \in DOMAIN job_runs : job_runs[r].job_id = j /\ job_runs[r].status = "running" }

C36_OneRunningRun == \A j \in JobIds : Cardinality(RunningRuns(j)) <= 1

\* the event loop is free: no invocation of runJob is in the middle of its
\* synchronous statements
C36_Agreement ==
  active = 0 =>
    \A j \in JobIds :
      /\ isJobRunning(j) <=> (j \in DOMAIN jobs /\ jobs[j].status = "running")
      /\ isJobRunning(j) <=> RunningRuns(j) # {}

\* C36: at every moment each job has at most one JobRun in status running, and
\* between the steps of the engine, with no storage failure, the job id is in
\* the run registry exactly when the Job status is running and exactly when
\* the job has a running JobRun.
C36_RegistryStatusRun == C36_OneRunningRun /\ (faults = 0 => C36_Agreement)

\* ---------------------------------------------------------------- C37
\* the JobRun of call c has been finalized completed
C37_Counters ==
  \A c \in Calls :
    (calls[c].pc \in {"resetJob", "finally"} /\ job_runs[calls[c].runId].status = "completed") =>
      LET run == job_runs[calls[c].runId] IN
        /\ run.warnings <= run.new_devices
        /\ run.new_devices <= run.devices_found
        /\ run.devices_found = Len(calls[c].allDevices)

\* a step of a run appends a notification only when it merges an observation,
\* and then one at most
C37_OnePerObservation ==
  \A c \in Calls :
    (InFlight(c) /\ calls'[c] # calls[c]) =>
      /\ NotificationsAppended
      /\ Len(Added) <= (IF MergeStep(c) THEN 1 ELSE 0)

\* C37: in every completed run warnings <= newDevices <= devicesFound, and the
\* run writes at most one Notification per observation of its batch.
C37_CountersOrdered == [](C37_Counters) /\ [][C37_OnePerObservation]_vars

\* a completed run found two devices, both new, one of them unauthorized, and
\* wrote one notification for each
C37_Witness ==
  \E c \in Calls :
    /\ calls[c].pc = "finally"
    /\ job_runs[calls[c].runId].status = "completed"
    /\ job_runs[calls[c].runId].warnings = 1
    /\ job_runs[calls[c].runId].new_devices = 2
    /\ job_runs[calls[c].runId].devices_found = 2
    /\ Len(notifications) = 2
====
